---- MODULE Spec2Model ----
(***************************************************************************)
(* Model of parts of safe_network: the section authority state machine     *)
(* (routing/section/mod.rs), the DKG voter (routing/dkg/voter.rs), the     *)
(* node's Comm (routing/comm.rs), the client's Session                     *)
(* (client/connections/messaging.rs), WireMsg                              *)
(* (messaging/serialisation/wire_msg.rs) and the Joining stage             *)
(* (node/stage/joining.rs).                                                *)
(*                                                                         *)
(* Several specifications share the module:                                *)
(*   SectionSpec   Section::new / first_node followed by update_elders,    *)
(*                 merge_chain, update_member and merge_members calls;     *)
(*   ElderSpec     promote_and_demote_elders / try_split applied to        *)
(*                 sections drawn from a bounded family;                   *)
(*   DkgSpec       DkgVoter::start and DkgVoter::process_message calls;    *)
(*   ReplaySpec    the same calls, long enough to fill and replay the      *)
(*                 backlog;                                                *)
(*   CommSpec      Comm::send_message_to_targets calls over a connection   *)
(*                 cache;                                                  *)
(*   IncomingSpec  an IncomingConnections stream, its tasks and its drop;  *)
(*   QuerySpec     one Session::send_query call and the elders' answers;   *)
(*   ClientSpec    Session::send_cmd and make_contact_with_nodes calls;    *)
(*   WireSpec      a WireMsg, its setters, serialize and from;             *)
(*   JoinSpec      Joining::handle_timeout and handle_bootstrap_response;  *)
(*   RaceSpec      DkgVoter::start and process_message run concurrently;   *)
(*   StartRaceSpec two DkgVoter::start calls run concurrently;             *)
(*   SendRaceSpec  two Comm::send_to calls to one recipient run            *)
(*                 concurrently;                                           *)
(*   QueryRaceSpec two Session::send_query calls with one operation id     *)
(*                 run concurrently.                                       *)
(* The variables of the components a specification does not exercise stay  *)
(* at their initial values.                                                *)
(***************************************************************************)
EXTENDS Integers, Sequences, FiniteSets, TLC

VARIABLES
    section,     \* the Section struct, or NoSection before construction
    last,        \* the last Section call: its name, its result, its inputs
    candidates,  \* what promote_and_demote_elders returned (Vec<ElderCandidates>)
    sessions,    \* DkgVoter.sessions: DkgSessionId -> Session
    backlog,     \* DkgVoter.backlog: queue of (DkgSessionId, DkgMessage)
    commands,    \* the Vec<Command> returned by the last DkgVoter call
    dkg_last,    \* the last DkgVoter call: its name and inputs; in RaceSpec and
                 \* StartRaceSpec the DkgVoter calls in progress
    comm,        \* Comm.node_conns and the send_message_to_targets call, or the
                 \* send_to calls, in progress
    incoming,    \* an IncomingConnections stream and the tasks spawned for it
    query,       \* the client Session's pending_queries and its send_query calls
    client,      \* a client send_message or make_contact_with_nodes call
    wire,        \* a WireMsg, its serialised bytes and what was made of them
    joining      \* the Joining stage of a node: target section and join timer

vars == <<section, last, candidates, sessions, backlog, commands, dkg_last,
          comm, incoming, query, client, wire, joining>>

section_vars == <<section, last, candidates>>
dkg_vars == <<sessions, backlog, commands, dkg_last>>
more_vars == <<client, wire, joining>>
net_vars == <<comm, incoming, query, more_vars>>

(***************************************************************************)
(* Bounds.                                                                 *)
(***************************************************************************)
\* SectionSpec makes at most this many mutating calls after construction.
MaxCalls == 2
\* ElderSpec: each half of a section holds at most this many mature members.
MaxHalf == 11

\* The DKG voter handles at most MaxDkgCalls calls.
MaxDkgCalls == 2

\* Generations of DKG sessions run from 0 to MaxGeneration.
MaxGeneration == 1

\* The largest elder candidate set handed to the DKG voter.
MaxCandidates == 7

\* The capacity of the DKG backlog.
MaxBacklog == 2

\* ReplaySpec: the DKG voter handles at most MaxReplayCalls calls.
MaxReplayCalls == 3

\* CommSpec: send_message_to_targets is called with a delivery_group_size of
\* at most MaxGroupSize.
MaxGroupSize == 4

\* IncomingSpec: at most MaxConns peers connect to the endpoint.
MaxConns == 2

\* ClientSpec: a call is given at most MaxNodes contacts, and the wait for
\* network knowledge is followed for MaxKnowledgeChecks turns of its loop.
MaxNodes == 4
MaxKnowledgeChecks == 5

\* JoinSpec: the timer hands out at most MaxTimerTokens tokens.
MaxTimerTokens == 4

\* WireSpec: payloads have at most MaxPayload bytes.
MaxPayload == 2

\* QuerySpec: the section a query goes to has at most MaxQueryElders elders.
MaxQueryElders == 4

(***************************************************************************)
(* XorName and Prefix (crate xor_name), on names of NameBits bits.         *)
(***************************************************************************)
NameBits == 6

Pow2(n) == 2 ^ n

XorNames == 0 .. (Pow2(NameBits) - 1)

\* XorName::bit(i): bit i of the name, bit 0 being the most significant.
Bit(name, i) == (name \div Pow2(NameBits - 1 - i)) % 2

\* A Prefix is the sequence of its bits.
PrefixesUpTo(n) == UNION {[1 .. k -> {0, 1}] : k \in 0 .. n}

BitCount(prefix) == Len(prefix)

\* Prefix::matches(name)
Matches(prefix, name) ==
    \A i \in 1 .. Len(prefix) : Bit(name, i - 1) = prefix[i]

\* Prefix::pushed(bit)
Pushed(prefix, bit) == Append(prefix, bit)

\* Prefix::is_extension_of(other): compatible with other and strictly longer.
IsExtensionOf(prefix, other) ==
    /\ Len(prefix) > Len(other)
    /\ \A i \in 1 .. Len(other) : prefix[i] = other[i]

(***************************************************************************)
(* Signatures.  A KeyedSig is [public_key, valid]: valid says whether the  *)
(* signature bytes verify under public_key over the value they come with.  *)
(***************************************************************************)
\* The BLS public keys, ordered as the keys' Ord.
Keys == {1, 2}

KeyedSigs == [public_key : Keys, valid : BOOLEAN]

\* SectionAuth<T>::self_verify
SelfVerify(signed) == signed.sig.valid

(***************************************************************************)
(* SecuredLinkedList: [root, parent, bad].  parent maps every non-root key *)
(* to the key that signed it; bad holds the keys whose block signature     *)
(* does not verify.                                                        *)
(***************************************************************************)
NewChain(root) == [root |-> root, parent |-> <<>>, bad |-> {}]

ChainKeys(chain) == {chain.root} \cup DOMAIN chain.parent

\* SecuredLinkedList::has_key
HasKey(chain, key) == key \in ChainKeys(chain)

RootKey(chain) == chain.root

RECURSIVE SortedSeq(_)
SortedSeq(S) ==
    IF S = {} THEN <<>>
    ELSE LET m == CHOOSE x \in S : \A y \in S : x <= y
         IN <<m>> \o SortedSeq(S \ {m})

ChainChildren(chain, key) == {c \in DOMAIN chain.parent : chain.parent[c] = key}

\* The block order: parents before children, siblings by ascending key.
RECURSIVE BlockOrder(_, _, _)
BlockOrder(chain, queue, out) ==
    IF queue = <<>> THEN out
    ELSE BlockOrder(chain,
                    Tail(queue) \o SortedSeq(ChainChildren(chain, Head(queue))),
                    Append(out, Head(queue)))

ChainOrder(chain) == BlockOrder(chain, <<chain.root>>, <<>>)

\* SecuredLinkedList::last_key: the key of the last block in block order.
LastKey(chain) == LET o == ChainOrder(chain) IN o[Len(o)]

\* SecuredLinkedList::self_verify
ChainSelfVerify(chain) == chain.bad = {}

AddBlock(chain, parent_key, key) ==
    [chain EXCEPT !.parent = [k \in (DOMAIN chain.parent) \cup {key} |->
                                IF k = key THEN parent_key ELSE chain.parent[k]]]

\* SecuredLinkedList::insert(parent_key, key, signature): [ok, chain].
ChainInsert(chain, parent_key, key, sig_valid) ==
    IF ~HasKey(chain, parent_key) THEN [ok |-> FALSE, chain |-> chain]
    ELSE IF ~sig_valid THEN [ok |-> FALSE, chain |-> chain]
    ELSE IF HasKey(chain, key) THEN [ok |-> TRUE, chain |-> chain]
    ELSE [ok |-> TRUE, chain |-> AddBlock(chain, parent_key, key)]

\* SecuredLinkedList::merge(other): [ok, chain]. The union of two chains with
\* the same root; a block this chain already holds is kept as it is.
ChainMerge(chain, other) ==
    IF other.root # chain.root \/ ~ChainSelfVerify(other)
    THEN [ok |-> FALSE, chain |-> chain]
    ELSE [ok |-> TRUE,
          chain |-> [chain EXCEPT !.parent =
              [k \in ((DOMAIN chain.parent) \cup (DOMAIN other.parent)) \ {chain.root} |->
                  IF k \in DOMAIN chain.parent THEN chain.parent[k]
                  ELSE other.parent[k]]]]

\* The chains over Keys with at most n blocks after the root, all signed.
RECURSIVE ValidChains(_)
ValidChains(n) ==
    IF n = 0 THEN {NewChain(r) : r \in Keys}
    ELSE LET prev == ValidChains(n - 1)
         IN prev \cup {AddBlock(c, p, k) :
                          <<c, p, k>> \in {t \in prev \X Keys \X Keys :
                                              /\ HasKey(t[1], t[2])
                                              /\ ~HasKey(t[1], t[3])}}

\* The chains a caller may hand in: the signed ones, and each of them with
\* the signature of its last block broken.
InputChains ==
    LET valid == ValidChains(Cardinality(Keys) - 1)
    IN valid \cup {[c EXCEPT !.bad = {LastKey(c)}] :
                      c \in {v \in valid : DOMAIN v.parent # {}}}

(***************************************************************************)
(* SectionAuthorityProvider, NodeState and SectionPeers.                   *)
(***************************************************************************)
MIN_ADULT_AGE == 5

MembershipStates == {"Joined", "Relocated", "Left"}

\* SectionAuth<NodeState>: [value |-> [name, age, state], sig |-> KeyedSig].
\* SectionAuth<SectionAuthorityProvider>:
\*   [value |-> [prefix, elders, public_key], sig |-> KeyedSig],
\* public_key standing for value.public_key_set.public_key().

\* SectionAuth<T>::verify(chain): signed by a key of the chain, validly.
Verify(signed, chain) == HasKey(chain, signed.sig.public_key) /\ SelfVerify(signed)

\* Precedence of the "latest known" state of a name: Joined < Relocated < Left.
StateRank(state) ==
    CASE state = "Joined" -> 1
      [] state = "Relocated" -> 2
      [] state = "Left" -> 3

\* SectionPeers::update(new_info): [changed, members]. A record for a new name
\* is stored; a record for a known name replaces the old one iff it strictly
\* supersedes it.
PeersUpdate(members, new_info) ==
    LET name == new_info.value.name
        put == [n \in (DOMAIN members) \cup {name} |->
                   IF n = name THEN new_info ELSE members[n]]
    IN IF name \notin DOMAIN members
       THEN [changed |-> TRUE, members |-> put]
       ELSE IF StateRank(new_info.value.state) > StateRank(members[name].value.state)
       THEN [changed |-> TRUE, members |-> put]
       ELSE [changed |-> FALSE, members |-> members]

\* SectionPeers::prune_not_matching(prefix)
PruneNotMatching(members, prefix) ==
    [n \in {m \in DOMAIN members : Matches(prefix, m)} |-> members[n]]

NoMembers == [n \in {} |-> 0]

(***************************************************************************)
(* Section (routing/section/mod.rs).  Each operation is an operator from   *)
(* the section and the call's arguments to the result and the new section. *)
(***************************************************************************)
NoSection == [built |-> FALSE]

\* Section::new
new(genesis_key, chain, section_auth) ==
    IF section_auth.sig.public_key # LastKey(chain)
    THEN [result |-> "UntrustedSectionAuthProvider", section |-> NoSection]
    ELSE IF genesis_key # RootKey(chain)
    THEN [result |-> "UntrustedProofChain", section |-> NoSection]
    ELSE IF ~SelfVerify(section_auth)
    THEN [result |-> "UntrustedSectionAuthProvider", section |-> NoSection]
    ELSE IF section_auth.sig.public_key # section_auth.value.public_key
    THEN [result |-> "UntrustedSectionAuthProvider", section |-> NoSection]
    ELSE IF ~ChainSelfVerify(chain)
    THEN [result |-> "UntrustedProofChain", section |-> NoSection]
    ELSE [result |-> "Ok",
          section |-> [built |-> TRUE,
                       genesis_key |-> genesis_key,
                       chain |-> chain,
                       section_auth |-> section_auth,
                       members |-> NoMembers]]

\* create_first_section_authority_provider: the SAP of the first node, with
\* the empty prefix, signed with the only share of its 0-of-1 key set.
create_first_section_authority_provider(pk, peer) ==
    [value |-> [prefix |-> <<>>, elders |-> {peer.name}, public_key |-> pk],
     sig |-> [public_key |-> pk, valid |-> TRUE]]

\* Section::first_node, pk being the public key of the random key set.
first_node(pk, peer) ==
    LET section_auth == create_first_section_authority_provider(pk, peer)
        made == new(section_auth.sig.public_key,
                    NewChain(section_auth.sig.public_key),
                    section_auth)
        node_state == [value |-> [name |-> peer.name, age |-> peer.age,
                                  state |-> "Joined"],
                       sig |-> [public_key |-> pk, valid |-> TRUE]]
    IN IF made.result # "Ok" THEN made
       ELSE [result |-> "Ok",
             section |-> [made.section EXCEPT
                 !.members = PeersUpdate(made.section.members, node_state).members]]

\* update_member storing the record without verifying it against the chain.
update_member_unverified(s, node_state) ==
    LET upd == PeersUpdate(s.members, node_state)
    IN [ret |-> upd.changed, section |-> [s EXCEPT !.members = upd.members]]

\* Section::update_member: [ret, section]
update_member(s, node_state) ==
    IF ~Verify(node_state, s.chain)
    THEN [ret |-> FALSE, section |-> s]
    ELSE LET upd == PeersUpdate(s.members, node_state)
         IN [ret |-> upd.changed, section |-> [s EXCEPT !.members = upd.members]]

\* The loop of merge_members over the records of `members`, in name order.
RECURSIVE merge_each(_, _, _)
merge_each(s, members, names) ==
    IF names = <<>> THEN s
    ELSE merge_each(update_member(s, members[Head(names)]).section,
                    members, Tail(names))

\* Section::merge_members: members is [some |-> FALSE] or
\* [some |-> TRUE, members |-> SectionPeers].
merge_members(s, members) ==
    LET merged == IF members.some
                  THEN merge_each(s, members.members,
                                  SortedSeq(DOMAIN members.members))
                  ELSE s
    IN [merged EXCEPT !.members =
           PruneNotMatching(merged.members, merged.section_auth.value.prefix)]

\* merge_chain taking the proof chain in place of the section's chain.
merge_chain_replacing(s, other, proof_chain) ==
    LET merged == ChainMerge(s.chain, proof_chain)
    IN IF ~merged.ok THEN [ok |-> FALSE, section |-> s]
       ELSE [ok |-> TRUE,
             section |-> [s EXCEPT
                 !.chain = proof_chain,
                 !.section_auth = IF other.sig.public_key = LastKey(proof_chain)
                                  THEN other ELSE s.section_auth]]

\* Section::merge_chain: [ok, section]
merge_chain(s, other, proof_chain) ==
    LET merged == ChainMerge(s.chain, proof_chain)
    IN IF ~merged.ok THEN [ok |-> FALSE, section |-> s]
       ELSE [ok |-> TRUE,
             section |-> [s EXCEPT
                 !.chain = merged.chain,
                 !.section_auth = IF other.sig.public_key = LastKey(merged.chain)
                                  THEN other ELSE s.section_auth]]

\* update_elders inserting the key before it checks the new SAP.
update_elders_insert_first(s, new_section_auth, new_key_sig) ==
    LET ins == ChainInsert(s.chain, new_key_sig.public_key,
                           new_section_auth.sig.public_key, new_key_sig.valid)
        with_key == IF ins.ok THEN [s EXCEPT !.chain = ins.chain] ELSE s
    IN IF /\ new_section_auth.value.prefix # s.section_auth.value.prefix
          /\ ~IsExtensionOf(new_section_auth.value.prefix, s.section_auth.value.prefix)
       THEN [ret |-> FALSE, section |-> with_key]
       ELSE IF ~SelfVerify(new_section_auth)
       THEN [ret |-> FALSE, section |-> with_key]
       ELSE IF ~ins.ok THEN [ret |-> FALSE, section |-> s]
       ELSE LET auth == IF new_section_auth.sig.public_key = LastKey(ins.chain)
                        THEN new_section_auth ELSE s.section_auth
            IN [ret |-> TRUE,
                section |-> [s EXCEPT
                    !.chain = ins.chain,
                    !.section_auth = auth,
                    !.members = PruneNotMatching(s.members, auth.value.prefix)]]

\* update_elders pruning the members before it replaces the SAP.
update_elders_prune_first(s, new_section_auth, new_key_sig) ==
    IF /\ new_section_auth.value.prefix # s.section_auth.value.prefix
       /\ ~IsExtensionOf(new_section_auth.value.prefix, s.section_auth.value.prefix)
    THEN [ret |-> FALSE, section |-> s]
    ELSE IF ~SelfVerify(new_section_auth)
    THEN [ret |-> FALSE, section |-> s]
    ELSE LET ins == ChainInsert(s.chain, new_key_sig.public_key,
                                new_section_auth.sig.public_key, new_key_sig.valid)
         IN IF ~ins.ok THEN [ret |-> FALSE, section |-> s]
            ELSE [ret |-> TRUE,
                  section |-> [s EXCEPT
                      !.chain = ins.chain,
                      !.section_auth =
                          IF new_section_auth.sig.public_key = LastKey(ins.chain)
                          THEN new_section_auth ELSE s.section_auth,
                      !.members = PruneNotMatching(s.members,
                                                   s.section_auth.value.prefix)]]

\* Section::update_elders: [ret, section]
update_elders(s, new_section_auth, new_key_sig) ==
    IF /\ new_section_auth.value.prefix # s.section_auth.value.prefix
       /\ ~IsExtensionOf(new_section_auth.value.prefix, s.section_auth.value.prefix)
    THEN [ret |-> FALSE, section |-> s]
    ELSE IF ~SelfVerify(new_section_auth)
    THEN [ret |-> FALSE, section |-> s]
    ELSE LET ins == ChainInsert(s.chain, new_key_sig.public_key,
                                new_section_auth.sig.public_key, new_key_sig.valid)
         IN IF ~ins.ok THEN [ret |-> FALSE, section |-> s]
            ELSE LET auth == IF new_section_auth.sig.public_key = LastKey(ins.chain)
                             THEN new_section_auth ELSE s.section_auth
                 IN [ret |-> TRUE,
                     section |-> [s EXCEPT
                         !.chain = ins.chain,
                         !.section_auth = auth,
                         !.members = PruneNotMatching(s.members, auth.value.prefix)]]

(***************************************************************************)
(* Elder selection: SectionPeers::mature / elder_candidates, try_split and *)
(* promote_and_demote_elders.                                              *)
(***************************************************************************)
ELDER_SIZE == 7

RECOMMENDED_SECTION_SIZE == 10

\* supermajority(n) = n * 2 / 3 + 1
supermajority(group_size) == 1 + (group_size * 2) \div 3

\* SectionPeers::mature: the names of the joined members old enough.
Mature(members) ==
    {n \in DOMAIN members : /\ members[n].value.state = "Joined"
                            /\ members[n].value.age >= MIN_ADULT_AGE}

\* The XOR distance of two names, as an unsigned integer.
RECURSIVE XorDistance(_, _)
XorDistance(a, b) ==
    IF a = 0 /\ b = 0 THEN 0
    ELSE ((a + b) % 2) + 2 * XorDistance(a \div 2, b \div 2)

\* The centre of a prefix: its bits, then a one, then zeros.
RECURSIVE PrefixValue(_, _)
PrefixValue(prefix, i) ==
    IF i > Len(prefix) THEN 0
    ELSE prefix[i] * Pow2(NameBits - i) + PrefixValue(prefix, i + 1)

PrefixCentre(prefix) ==
    PrefixValue(prefix, 1)
    + (IF Len(prefix) < NameBits THEN Pow2(NameBits - 1 - Len(prefix)) ELSE 0)

\* The rank of a member as an elder candidate, lower ranking first: by age
\* descending, then by XOR distance to the centre of the section's prefix
\* (which no two names share, so that the name never has to break a tie).
RankKey(members, centre, n) ==
    (0 - members[n].value.age) * Pow2(NameBits) + XorDistance(n, centre)

\* A member is a candidate if it is joined, or is a current elder being
\* relocated.
IsActive(members, current, n) ==
    \/ members[n].value.state = "Joined"
    \/ members[n].value.state = "Relocated" /\ n \in current.elders

\* The names of the elder_size lowest of `ranked`, a set of <<rank, name>>.
RECURSIVE TakeBest(_, _)
TakeBest(ranked, elder_size) ==
    IF elder_size = 0 \/ ranked = {} THEN {}
    ELSE LET best == CHOOSE c \in ranked : \A d \in ranked : c[1] <= d[1]
         IN {best[2]} \cup TakeBest(ranked \ {best}, elder_size - 1)

\* The elder_size best-ranked names of `cands`: sorted_by(..).take(elder_size).
BestRanked(members, cands, elder_size, current) ==
    LET centre == PrefixCentre(current.prefix)
    IN TakeBest({<<RankKey(members, centre, n), n>> : n \in cands}, elder_size)

\* SectionPeers::elder_candidates: the names of the elder_size best-ranked
\* candidates outside excluded_names.
ElderCandidates(members, elder_size, current, excluded_names) ==
    BestRanked(members,
               {n \in DOMAIN members : /\ n \notin excluded_names
                                       /\ IsActive(members, current, n)},
               elder_size, current)

\* SectionPeers::elder_candidates_matching_prefix: the same, among the
\* members under `prefix`.
ElderCandidatesMatchingPrefix(members, prefix, elder_size, current, excluded_names) ==
    BestRanked(members,
               {n \in DOMAIN members : /\ Matches(prefix, n)
                                       /\ n \notin excluded_names
                                       /\ IsActive(members, current, n)},
               elder_size, current)

\* ElderCandidates::new(elders, prefix)
NewElderCandidates(elders, prefix) == [elders |-> elders, prefix |-> prefix]

\* The count try_split folds: the mature members outside excluded_names whose
\* bit at next_bit_index is (ours) or is not (siblings) next_bit.
SplitSizes(s, our_name, excluded_names) ==
    LET next_bit_index == BitCount(s.section_auth.value.prefix)
        next_bit == Bit(our_name, next_bit_index)
        counted == Mature(s.members) \ excluded_names
    IN [ours |-> Cardinality({n \in counted : Bit(n, next_bit_index) = next_bit}),
        siblings |-> Cardinality({n \in counted : Bit(n, next_bit_index) # next_bit})]

\* The two ElderCandidates try_split builds once it has decided to split.
SplitCandidates(s, our_name, excluded_names, elder_size) ==
    LET prefix == s.section_auth.value.prefix
        next_bit == Bit(our_name, BitCount(prefix))
        our_prefix == Pushed(prefix, next_bit)
        other_prefix == Pushed(prefix, 1 - next_bit)
    IN [some |-> TRUE,
        ours |-> NewElderCandidates(
            ElderCandidatesMatchingPrefix(s.members, our_prefix, elder_size,
                                          s.section_auth.value, excluded_names),
            our_prefix),
        other |-> NewElderCandidates(
            ElderCandidatesMatchingPrefix(s.members, other_prefix, elder_size,
                                          s.section_auth.value, excluded_names),
            other_prefix)]

\* try_split refusing only when both halves are too small.
try_split_both_small(s, our_name, excluded_names) ==
    IF BitCount(s.section_auth.value.prefix) > NameBits - 1
    THEN [some |-> FALSE]
    ELSE LET sizes == SplitSizes(s, our_name, excluded_names)
         IN IF /\ sizes.ours < RECOMMENDED_SECTION_SIZE
               /\ sizes.siblings < RECOMMENDED_SECTION_SIZE
            THEN [some |-> FALSE]
            ELSE SplitCandidates(s, our_name, excluded_names, ELDER_SIZE)

\* try_split taking RECOMMENDED_SECTION_SIZE elders for each half.
try_split_section_size(s, our_name, excluded_names) ==
    IF BitCount(s.section_auth.value.prefix) > NameBits - 1
    THEN [some |-> FALSE]
    ELSE LET sizes == SplitSizes(s, our_name, excluded_names)
         IN IF \/ sizes.ours < RECOMMENDED_SECTION_SIZE
               \/ sizes.siblings < RECOMMENDED_SECTION_SIZE
            THEN [some |-> FALSE]
            ELSE SplitCandidates(s, our_name, excluded_names,
                                 RECOMMENDED_SECTION_SIZE)

\* Section::try_split: [some |-> FALSE] or [some |-> TRUE, ours, other].
try_split(s, our_name, excluded_names) ==
    IF BitCount(s.section_auth.value.prefix) > NameBits - 1
    THEN [some |-> FALSE]
    ELSE LET sizes == SplitSizes(s, our_name, excluded_names)
         IN IF \/ sizes.ours < RECOMMENDED_SECTION_SIZE
               \/ sizes.siblings < RECOMMENDED_SECTION_SIZE
            THEN [some |-> FALSE]
            ELSE SplitCandidates(s, our_name, excluded_names, ELDER_SIZE)

\* promote_and_demote_elders without the supermajority check.
promote_and_demote_elders_any_size(s, our_name, excluded_names) ==
    LET split == try_split(s, our_name, excluded_names)
        expected_names == ElderCandidates(s.members, ELDER_SIZE,
                                          s.section_auth.value, excluded_names)
    IN IF split.some THEN <<split.ours, split.other>>
       ELSE IF expected_names = s.section_auth.value.elders THEN <<>>
       ELSE <<NewElderCandidates(expected_names, s.section_auth.value.prefix)>>

\* promote_and_demote_elders returning the sibling's candidates first.
promote_and_demote_elders_sibling_first(s, our_name, excluded_names) ==
    LET split == try_split(s, our_name, excluded_names)
        expected_names == ElderCandidates(s.members, ELDER_SIZE,
                                          s.section_auth.value, excluded_names)
        current_names == s.section_auth.value.elders
    IN IF split.some THEN <<split.other, split.ours>>
       ELSE IF expected_names = current_names THEN <<>>
       ELSE IF Cardinality(expected_names) < supermajority(Cardinality(current_names))
       THEN <<>>
       ELSE <<NewElderCandidates(expected_names, s.section_auth.value.prefix)>>

\* Section::promote_and_demote_elders: the Vec<ElderCandidates> it returns.
promote_and_demote_elders(s, our_name, excluded_names) ==
    LET split == try_split(s, our_name, excluded_names)
        expected_names == ElderCandidates(s.members, ELDER_SIZE,
                                          s.section_auth.value, excluded_names)
        current_names == s.section_auth.value.elders
    IN IF split.some THEN <<split.ours, split.other>>
       ELSE IF expected_names = current_names THEN <<>>
       ELSE IF Cardinality(expected_names) < supermajority(Cardinality(current_names))
       THEN <<>>
       ELSE <<NewElderCandidates(expected_names, s.section_auth.value.prefix)>>

(***************************************************************************)
(* SectionSpec: the inputs and the actions.                                *)
(***************************************************************************)
\* The section's prefix is the empty prefix or one of its two children.
SectionPrefixes == PrefixesUpTo(1)

\* One name under each of the two children.
SectionNames == {0, Pow2(NameBits) - 1}

EldersOf(prefix) == {CHOOSE n \in SectionNames :
                        /\ Matches(prefix, n)
                        /\ \A m \in SectionNames : Matches(prefix, m) => n <= m}

InputSAPs ==
    {[value |-> [prefix |-> p, elders |-> EldersOf(p), public_key |-> pk],
      sig |-> sig] : <<p, pk, sig>> \in SectionPrefixes \X Keys \X KeyedSigs}

InputNodeStates ==
    [value : [name : SectionNames, age : {MIN_ADULT_AGE}, state : MembershipStates],
     sig : KeyedSigs]

\* The SectionPeers collections handed to merge_members.
InputMembers ==
    UNION {{m \in [D -> InputNodeStates] : \A n \in D : m[n].value.name = n} :
              D \in SUBSET SectionNames}

NoArg == [none |-> TRUE]

NotCalled == [called |-> FALSE]

NoCall == [op |-> "none", ret |-> "none", calls |-> 0, arg |-> NoArg]

\* No Comm, no IncomingConnections stream and no client Session yet.
MoreIdle ==
    /\ client = [pc |-> "none"]
    /\ wire = [pc |-> "none"]
    /\ joining = [pc |-> "none"]

NetIdle ==
    /\ comm = [pc |-> "none"]
    /\ incoming = [pc |-> "none"]
    /\ query = [pc |-> "none"]
    /\ MoreIdle

\* No call of the DKG voter yet.  `newest` is the highest generation of the
\* sessions start has stored so far.
NoDkgCall == [op |-> "none", calls |-> 0, newest |-> 0 - 1, arg |-> NoArg,
              existed |-> FALSE, stored |-> FALSE, ok |-> TRUE]

Called(op, ret, arg) == [op |-> op, ret |-> ret, calls |-> last.calls + 1, arg |-> arg]

SectionNew ==
    /\ ~section.built
    /\ \E genesis_key \in Keys, chain \in InputChains, section_auth \in InputSAPs :
          LET r == new(genesis_key, chain, section_auth)
          IN /\ section' = r.section
             /\ last' = [op |-> "new", ret |-> r.result, calls |-> 0, arg |-> NoArg]
    /\ UNCHANGED <<candidates, dkg_vars, net_vars>>

SectionFirstNode ==
    /\ ~section.built
    /\ \E pk \in Keys, name \in SectionNames :
          LET r == first_node(pk, [name |-> name, age |-> MIN_ADULT_AGE])
          IN /\ section' = r.section
             /\ last' = [op |-> "first_node", ret |-> r.result, calls |-> 0, arg |-> NoArg]
    /\ UNCHANGED <<candidates, dkg_vars, net_vars>>

UpdateElders ==
    /\ section.built /\ last.calls < MaxCalls
    /\ \E new_section_auth \in InputSAPs, new_key_sig \in KeyedSigs :
          LET r == update_elders(section, new_section_auth, new_key_sig)
          IN /\ section' = r.section
             /\ last' = Called("update_elders", r.ret, NoArg)
    /\ UNCHANGED <<candidates, dkg_vars, net_vars>>

MergeChain ==
    /\ section.built /\ last.calls < MaxCalls
    /\ \E other \in InputSAPs, proof_chain \in InputChains :
          LET r == merge_chain(section, other, proof_chain)
          IN /\ section' = r.section
             /\ last' = Called("merge_chain", r.ok, NoArg)
    /\ UNCHANGED <<candidates, dkg_vars, net_vars>>

UpdateMember ==
    /\ section.built /\ last.calls < MaxCalls
    /\ \E node_state \in InputNodeStates :
          LET r == update_member(section, node_state)
          IN /\ section' = r.section
             /\ last' = Called("update_member", r.ret, node_state)
    /\ UNCHANGED <<candidates, dkg_vars, net_vars>>

MergeMembers ==
    /\ section.built /\ last.calls < MaxCalls
    /\ \E members \in {[some |-> FALSE]} \cup
                      {[some |-> TRUE, members |-> m] : m \in InputMembers} :
          /\ section' = merge_members(section, members)
          /\ last' = Called("merge_members", TRUE, NoArg)
    /\ UNCHANGED <<candidates, dkg_vars, net_vars>>

SectionInit ==
    /\ section = NoSection
    /\ last = NoCall
    /\ candidates = NotCalled
    /\ sessions = {}
    /\ backlog = <<>>
    /\ commands = <<>>
    /\ dkg_last = NoDkgCall
    /\ NetIdle

SectionNext ==
    \/ SectionNew
    \/ SectionFirstNode
    \/ UpdateElders
    \/ MergeChain
    \/ UpdateMember
    \/ MergeMembers

SectionSpec == SectionInit /\ [][SectionNext]_vars

(***************************************************************************)
(* Properties of the Section.                                              *)
(***************************************************************************)
MemberNames == DOMAIN section.members

\* C1: the key that signed the current SAP is the last key of the chain, in
\* every state reached by Section::new and any calls after it.
C1_SapKeyIsLastKey ==
    section.built => section.section_auth.sig.public_key = LastKey(section.chain)

\* C2: every member record is validly signed by a key of the section's chain,
\* and a record that does not verify against the chain makes update_member
\* return false and is not stored.
C2_MembersVerifyAgainstChain ==
    section.built =>
        /\ \A n \in MemberNames : Verify(section.members[n], section.chain)
        /\ (last.op = "update_member" /\ ~Verify(last.arg, section.chain)) =>
               /\ last.ret = FALSE
               /\ \A n \in MemberNames : section.members[n] # last.arg

\* update_member has refused a record that does not verify, in a section
\* that holds a member.
C2_Witness ==
    /\ section.built
    /\ last.op = "update_member"
    /\ ~Verify(last.arg, section.chain)
    /\ last.ret = FALSE
    /\ MemberNames # {}

\* C3: after update_elders returned true, and after merge_members, every
\* member's name matches the prefix of the current SAP.
C3_MembersMatchPrefixAfterElderChange ==
    (section.built /\ (\/ (last.op = "update_elders" /\ last.ret = TRUE)
                       \/ last.op = "merge_members")) =>
        \A n \in MemberNames : Matches(section.section_auth.value.prefix, n)

\* update_elders has moved a section with members to a child prefix.
C3_Witness ==
    /\ section.built
    /\ last.op = "update_elders" /\ last.ret = TRUE
    /\ Len(section.section_auth.value.prefix) = 1
    /\ MemberNames # {}

(***************************************************************************)
(* ElderSpec: promote_and_demote_elders applied once to each section of a  *)
(* bounded family.  A section of the family has, in each half of its       *)
(* prefix, an optional relocated member, an optional member that left, up  *)
(* to MaxHalf mature members and an optional young one, on the lowest      *)
(* names of the half in that order; its elders are the first members of    *)
(* each half.                                                              *)
(***************************************************************************)
FirstKey == CHOOSE k \in Keys : \A j \in Keys : k <= j

SignedByFirstKey == [public_key |-> FirstKey, valid |-> TRUE]

\* The lowest name under a prefix, and the number of names under it.
LowestName(prefix) == PrefixValue(prefix, 1)

NamesUnder(prefix) == Pow2(NameBits - Len(prefix))

RECURSIVE Repeat(_, _)
Repeat(x, n) == IF n = 0 THEN <<>> ELSE <<x>> \o Repeat(x, n - 1)

HalfKinds(mature, extras, young) ==
    (IF "Relocated" \in extras THEN <<"Relocated">> ELSE <<>>)
    \o (IF "Left" \in extras THEN <<"Left">> ELSE <<>>)
    \o Repeat("Mature", mature)
    \o (IF young THEN <<"Young">> ELSE <<>>)

KindState(kind) == IF kind \in {"Mature", "Young"} THEN "Joined" ELSE kind

KindAge(kind, i) ==
    CASE kind = "Young" -> MIN_ADULT_AGE - 1
      [] kind = "Mature" -> MIN_ADULT_AGE + (i % 2)
      [] OTHER -> MIN_ADULT_AGE + 1

\* The member records of one half: slot i sits on the i-th name of the half.
HalfMembers(prefix, bit, kinds) ==
    LET low == LowestName(Pushed(prefix, bit))
    IN [n \in {low + i - 1 : i \in 1 .. Len(kinds)} |->
           [value |-> [name |-> n,
                       age |-> KindAge(kinds[n - low + 1], n - low + 1),
                       state |-> KindState(kinds[n - low + 1])],
            sig |-> SignedByFirstKey]]

HalfElders(prefix, bit, count) ==
    {LowestName(Pushed(prefix, bit)) + i - 1 : i \in 1 .. count}

ElderSection(prefix, mature, extras, young, elders) ==
    LET m0 == HalfMembers(prefix, 0, HalfKinds(mature[1], extras, young))
        m1 == HalfMembers(prefix, 1, HalfKinds(mature[2], extras, young))
    IN [built |-> TRUE,
        genesis_key |-> FirstKey,
        chain |-> NewChain(FirstKey),
        section_auth |->
            [value |-> [prefix |-> prefix,
                        elders |-> HalfElders(prefix, 0, elders[1])
                                   \cup HalfElders(prefix, 1, elders[2]),
                        public_key |-> FirstKey],
             sig |-> SignedByFirstKey],
        members |-> [n \in (DOMAIN m0) \cup (DOMAIN m1) |->
                        IF n \in DOMAIN m0 THEN m0[n] ELSE m1[n]]]

\* The section whose prefix has every bit of the name: it cannot split.
LeafSection ==
    LET prefix == [i \in 1 .. NameBits |-> 0]
    IN [built |-> TRUE,
        genesis_key |-> FirstKey,
        chain |-> NewChain(FirstKey),
        section_auth |-> [value |-> [prefix |-> prefix, elders |-> {0},
                                     public_key |-> FirstKey],
                          sig |-> SignedByFirstKey],
        members |-> [n \in {0} |->
                        [value |-> [name |-> 0, age |-> MIN_ADULT_AGE,
                                    state |-> "Joined"],
                         sig |-> SignedByFirstKey]]]

\* A half is nearly empty, or within two of the largest.
HalfSizes == (0 .. 2) \cup ((MaxHalf - 2) .. MaxHalf)

HalfElderCounts == 0 .. (ELDER_SIZE \div 2 + 1)

ElderSections ==
    {LeafSection} \cup
    {ElderSection(prefix, mature, extras, young, elders) :
        <<prefix, mature, extras, young, elders>> \in
            {t \in {<<>>, <<1>>} \X (HalfSizes \X HalfSizes)
                   \X (SUBSET {"Relocated", "Left"}) \X BOOLEAN
                   \X (HalfElderCounts \X HalfElderCounts) :
                /\ t[5][1] + t[5][2] \in 1 .. ELDER_SIZE
                /\ t[5][1] <= Len(HalfKinds(t[2][1], t[3], t[4]))
                /\ t[5][2] <= Len(HalfKinds(t[2][2], t[3], t[4]))}}

\* our_name: the lowest and the highest name of the section.
OurNames(s) ==
    LET prefix == s.section_auth.value.prefix
    IN {LowestName(prefix), LowestName(prefix) + NamesUnder(prefix) - 1}

\* excluded_names: any of the third names of the two halves.
ExcludedNames(s) ==
    LET prefix == s.section_auth.value.prefix
    IN SUBSET ({LowestName(prefix) + 2,
                LowestName(prefix) + NamesUnder(prefix) \div 2 + 2} \cap XorNames)

PromoteAndDemoteElders ==
    /\ section.built /\ last.op = "none"
    /\ \E our_name \in OurNames(section), excluded_names \in ExcludedNames(section) :
          LET r == promote_and_demote_elders(section, our_name, excluded_names)
          IN /\ candidates' = [called |-> TRUE, our_name |-> our_name,
                               excluded_names |-> excluded_names, result |-> r]
             /\ last' = Called("promote_and_demote_elders", Len(r), NoArg)
    /\ UNCHANGED <<section, dkg_vars, net_vars>>

ElderInit ==
    /\ section \in ElderSections
    /\ last = NoCall
    /\ candidates = NotCalled
    /\ sessions = {}
    /\ backlog = <<>>
    /\ commands = <<>>
    /\ dkg_last = NoDkgCall
    /\ NetIdle

ElderNext == PromoteAndDemoteElders

ElderSpec == ElderInit /\ [][ElderNext]_vars

(***************************************************************************)
(* Properties of the elder selection.                                      *)
(***************************************************************************)
CurrentSAP == section.section_auth.value

\* The mature members outside excluded_names on our side of the next bit
\* (side = TRUE) or on the sibling's (side = FALSE).
HalfSize(side) ==
    LET index == Len(CurrentSAP.prefix)
    IN Cardinality({n \in DOMAIN section.members :
           /\ section.members[n].value.state = "Joined"
           /\ section.members[n].value.age >= MIN_ADULT_AGE
           /\ n \notin candidates.excluded_names
           /\ (Bit(n, index) = Bit(candidates.our_name, index)) = side})

SplitProposed == candidates.called /\ Len(candidates.result) = 2

ExpectedElders ==
    ElderCandidates(section.members, ELDER_SIZE, CurrentSAP, candidates.excluded_names)

\* C5: without a split, no candidates are returned when the newly selected
\* elder set is smaller than supermajority(number of current elders), and a
\* returned elder set is never smaller than that.
C5_NeverBelowSupermajority ==
    (candidates.called /\ ~SplitProposed) =>
        /\ Cardinality(ExpectedElders) < supermajority(Cardinality(CurrentSAP.elders))
               => candidates.result = <<>>
        /\ Len(candidates.result) = 1 =>
               Cardinality(candidates.result[1].elders)
                   >= supermajority(Cardinality(CurrentSAP.elders))

\* The selection differs from the current elders, is not empty, and is
\* refused for being below the supermajority.
C5_Witness ==
    /\ candidates.called /\ ~SplitProposed
    /\ ExpectedElders # CurrentSAP.elders
    /\ ExpectedElders # {}
    /\ Cardinality(ExpectedElders) < supermajority(Cardinality(CurrentSAP.elders))
    /\ candidates.result = <<>>

\* C6: every ElderCandidates returned, with or without a split, has at least
\* one and at most ELDER_SIZE elders.
C6_ElderCountWithinBounds ==
    candidates.called =>
        \A i \in 1 .. Len(candidates.result) :
            /\ Cardinality(candidates.result[i].elders) >= 1
            /\ Cardinality(candidates.result[i].elders) <= ELDER_SIZE

\* A split whose two elder sets are full.
C6_Witness ==
    /\ SplitProposed
    /\ Cardinality(candidates.result[1].elders) = ELDER_SIZE
    /\ Cardinality(candidates.result[2].elders) = ELDER_SIZE

(***************************************************************************)
(* The DKG voter.  `sessions` is the session map, a set of entries          *)
(* [dkg_key, session] with at most one entry for a key; `backlog` is the    *)
(* queue of <<dkg_key, message>> received before their session existed;     *)
(* `commands` is what the last call returned.                               *)
(***************************************************************************)
\* The name of this node.
NodeName == 2

\* DkgSessionId: the hash of the candidates it was made for and a generation.
DkgHashes == {1, 2}

DkgSessionIds == [hash : DkgHashes, generation : 0 .. MaxGeneration]

\* The elder candidate sets handed to start: runs of names that begin at
\* name 1 or at this node's name, of up to three or of MaxCandidates names.
CandidateSizes == {1, 2, 3, MaxCandidates}

CandidateSets == {a .. (a + n - 1) : <<a, n>> \in {1, NodeName} \X CandidateSizes}

DkgMessages == {"Proposal", "Complaint"}

\* ElderCandidates::position: the index of a name among the sorted elders.
Position(elder_candidates, name) ==
    IF name \in elder_candidates
    THEN [some |-> TRUE,
          index |-> Cardinality({n \in elder_candidates : n < name})]
    ELSE [some |-> FALSE]

\* Backlog::push: the oldest message makes room when the backlog is full.
BacklogPush(queue, dkg_key, message) ==
    (IF Len(queue) = MaxBacklog THEN Tail(queue) ELSE queue)
        \o <<<<dkg_key, message>>>>

RECURSIVE BacklogSelect(_, _, _)
BacklogSelect(queue, dkg_key, wanted) ==
    IF queue = <<>> THEN <<>>
    ELSE (IF (Head(queue)[1] = dkg_key) = wanted THEN <<Head(queue)>> ELSE <<>>)
         \o BacklogSelect(Tail(queue), dkg_key, wanted)

\* Backlog::take: the messages of dkg_key, in arrival order, and the rest.
BacklogTake(queue, dkg_key) ==
    LET taken == BacklogSelect(queue, dkg_key, TRUE)
    IN [messages |-> [i \in 1 .. Len(taken) |-> taken[i][2]],
        rest |-> BacklogSelect(queue, dkg_key, FALSE)]

RECURSIVE BacklogPrune(_, _)
\* Backlog::prune: drops the messages of generations older than dkg_key's.
BacklogPrune(queue, dkg_key) ==
    IF queue = <<>> THEN <<>>
    ELSE (IF Head(queue)[1].generation >= dkg_key.generation
          THEN <<Head(queue)>> ELSE <<>>)
         \o BacklogPrune(Tail(queue), dkg_key)

\* KeyGen::initialize(name, threshold, participants): the key generator and
\* its first message.
KeyGenInitialize(name, threshold, participants) ==
    [key_gen |-> [our_id |-> name, threshold |-> threshold,
                  participants |-> participants, handled |-> <<>>],
     message |-> "Initialization"]

\* Session::process_message: the key generator handles the message.
SessionProcessMessage(session, message) ==
    [session |-> [session EXCEPT !.key_gen.handled = Append(@, message)],
     commands |-> <<>>]

\* Session::broadcast: the message goes to the other participants and is
\* handled by this node's own key generator.
SessionBroadcast(session, dkg_key, message) ==
    LET recipients == session.elder_candidates \ {session.key_gen.our_id}
        handled == SessionProcessMessage(session, message)
    IN [session |-> handled.session,
        commands |->
            (IF recipients = {} THEN <<>>
             ELSE <<[kind |-> "SendDkgMessage", recipients |-> recipients,
                     dkg_key |-> dkg_key, message |-> message]>>)
            \o handled.commands]

RECURSIVE SessionReplayLatestFirst(_, _)
\* The replay handing the session the latest message of the backlog first.
SessionReplayLatestFirst(session, messages) ==
    IF messages = <<>> THEN [session |-> session, commands |-> <<>>]
    ELSE LET first == SessionProcessMessage(session, messages[Len(messages)])
             rest == SessionReplayLatestFirst(first.session,
                                              SubSeq(messages, 1, Len(messages) - 1))
         IN [session |-> rest.session,
             commands |-> first.commands \o rest.commands]

RECURSIVE SessionReplay(_, _)
\* The loop of start over the messages taken from the backlog.
SessionReplay(session, messages) ==
    IF messages = <<>> THEN [session |-> session, commands |-> <<>>]
    ELSE LET first == SessionProcessMessage(session, Head(messages))
             rest == SessionReplay(first.session, Tail(messages))
         IN [session |-> rest.session,
             commands |-> first.commands \o rest.commands]

SessionKeys(entries) == {e.dkg_key : e \in entries}

\* DashMap::get
SessionOf(entries, dkg_key) == (CHOOSE e \in entries : e.dkg_key = dkg_key).session

\* DashMap::insert
SessionsInsert(entries, dkg_key, session) ==
    {e \in entries : e.dkg_key # dkg_key}
        \cup {[dkg_key |-> dkg_key, session |-> session]}

\* What start returns where it changes nothing.
NothingStarted(voter) ==
    [sessions |-> voter.sessions, backlog |-> voter.backlog,
     commands |-> <<>>, ok |-> TRUE, stored |-> FALSE]

\* start not looking for a session of the same identifier.
session_in_progress_never(voter, dkg_key) == FALSE

\* start: self.sessions.contains_key(&dkg_key)
session_in_progress(voter, dkg_key) == dkg_key \in SessionKeys(voter.sessions)

\* The threshold taken as the supermajority itself.
dkg_threshold_supermajority(elder_candidates) ==
    supermajority(Cardinality(elder_candidates))

\* start: the threshold of the key generation over the elder candidates.
dkg_threshold(elder_candidates) ==
    supermajority(Cardinality(elder_candidates)) - 1

\* bls::SecretKeySet::random(threshold, rng)
SecretKeySetRandom(threshold) == [threshold |-> threshold]

\* The only participant also announcing the key generation to itself.
only_one_participant_announcing(voter, dkg_key, elder_candidates, participant_index) ==
    LET secret_key_set == SecretKeySetRandom(0)
    IN [sessions |-> voter.sessions, backlog |-> voter.backlog,
        commands |->
            <<[kind |-> "SendDkgMessage", recipients |-> elder_candidates,
               dkg_key |-> dkg_key, message |-> "Initialization"],
              [kind |-> "HandleDkgOutcome",
               section_auth |-> [elders |-> elder_candidates,
                                 public_key_set |-> secret_key_set],
               outcome |-> [public_key_set |-> secret_key_set,
                            index |-> participant_index,
                            secret_key_share |-> 0]]>>,
        ok |-> TRUE, stored |-> FALSE]

\* start, special case: only one participant.
only_one_participant(voter, dkg_key, elder_candidates, participant_index) ==
    LET secret_key_set == SecretKeySetRandom(0)
    IN [sessions |-> voter.sessions, backlog |-> voter.backlog,
        commands |->
            <<[kind |-> "HandleDkgOutcome",
               section_auth |-> [elders |-> elder_candidates,
                                 public_key_set |-> secret_key_set],
               outcome |-> [public_key_set |-> secret_key_set,
                            index |-> participant_index,
                            secret_key_share |-> 0]]>>,
        ok |-> TRUE, stored |-> FALSE]

\* The points at which start can fail: KeyGen::initialize, the broadcast of
\* the first message, the handling of a message of the backlog.
StartFailures == {"none", "initialize", "broadcast", "replay"}

\* start_session removing the old sessions and messages although
\* KeyGen::initialize failed.
start_session_pruning_always(voter, name, dkg_key, elder_candidates, participant_index, failure) ==
    LET threshold == dkg_threshold(elder_candidates)
        initialized == KeyGenInitialize(name, threshold, elder_candidates)
        session == [key_gen |-> initialized.key_gen,
                    elder_candidates |-> elder_candidates,
                    participant_index |-> participant_index,
                    timer_token |-> 0,
                    failures |-> {},
                    complete |-> FALSE]
        broadcast == SessionBroadcast(session, dkg_key, initialized.message)
        taken == BacklogTake(voter.backlog, dkg_key)
        replayed == SessionReplay(broadcast.session, taken.messages)
        inserted == SessionsInsert(voter.sessions, dkg_key, replayed.session)
    IN IF failure = "initialize"
       THEN [sessions |-> {e \in voter.sessions :
                              e.dkg_key.generation >= dkg_key.generation},
             backlog |-> BacklogPrune(voter.backlog, dkg_key),
             commands |-> <<>>, ok |-> TRUE, stored |-> FALSE]
       ELSE IF failure = "broadcast"
       THEN [sessions |-> voter.sessions, backlog |-> voter.backlog,
             commands |-> <<>>, ok |-> FALSE, stored |-> FALSE]
       ELSE IF failure = "replay" /\ taken.messages # <<>>
       THEN [sessions |-> voter.sessions, backlog |-> taken.rest,
             commands |-> <<>>, ok |-> FALSE, stored |-> FALSE]
       ELSE [sessions |-> {e \in inserted :
                              e.dkg_key.generation >= dkg_key.generation},
             backlog |-> BacklogPrune(taken.rest, dkg_key),
             commands |-> broadcast.commands \o replayed.commands,
             ok |-> TRUE, stored |-> TRUE]

\* start, once this node is one of several participants.
start_session(voter, name, dkg_key, elder_candidates, participant_index, failure) ==
    LET threshold == dkg_threshold(elder_candidates)
        initialized == KeyGenInitialize(name, threshold, elder_candidates)
        session == [key_gen |-> initialized.key_gen,
                    elder_candidates |-> elder_candidates,
                    participant_index |-> participant_index,
                    timer_token |-> 0,
                    failures |-> {},
                    complete |-> FALSE]
        broadcast == SessionBroadcast(session, dkg_key, initialized.message)
        taken == BacklogTake(voter.backlog, dkg_key)
        replayed == SessionReplay(broadcast.session, taken.messages)
        inserted == SessionsInsert(voter.sessions, dkg_key, replayed.session)
    IN IF failure = "initialize" THEN NothingStarted(voter)
       ELSE IF failure = "broadcast"
       THEN [sessions |-> voter.sessions, backlog |-> voter.backlog,
             commands |-> <<>>, ok |-> FALSE, stored |-> FALSE]
       ELSE IF failure = "replay" /\ taken.messages # <<>>
       THEN [sessions |-> voter.sessions, backlog |-> taken.rest,
             commands |-> <<>>, ok |-> FALSE, stored |-> FALSE]
       ELSE [sessions |-> {e \in inserted :
                              e.dkg_key.generation >= dkg_key.generation},
             backlog |-> BacklogPrune(taken.rest, dkg_key),
             commands |-> broadcast.commands \o replayed.commands,
             ok |-> TRUE, stored |-> TRUE]

\* DkgVoter::start
start(voter, name, dkg_key, elder_candidates, failure) ==
    LET position == Position(elder_candidates, name)
    IN IF session_in_progress(voter, dkg_key) THEN NothingStarted(voter)
       ELSE IF ~position.some THEN NothingStarted(voter)
       ELSE IF Cardinality(elder_candidates) = 1
       THEN only_one_participant(voter, dkg_key, elder_candidates, position.index)
       ELSE start_session(voter, name, dkg_key, elder_candidates,
                          position.index, failure)

\* DkgVoter::process_message
process_message(voter, dkg_key, message) ==
    IF dkg_key \in SessionKeys(voter.sessions)
    THEN LET handled == SessionProcessMessage(SessionOf(voter.sessions, dkg_key),
                                              message)
         IN [sessions |-> SessionsInsert(voter.sessions, dkg_key, handled.session),
             backlog |-> voter.backlog,
             commands |-> handled.commands]
    ELSE [sessions |-> voter.sessions,
          backlog |-> BacklogPush(voter.backlog, dkg_key, message),
          commands |-> <<>>]

(***************************************************************************)
(* DkgSpec: start and process_message called in any order.                 *)
(***************************************************************************)
Voter == [sessions |-> sessions, backlog |-> backlog]

Max(a, b) == IF a >= b THEN a ELSE b

\* A call of start with candidates drawn from candidate_sets; `recorded` says
\* whether dkg_last keeps the point at which the call was made to fail.
StartWith(candidate_sets, max_calls, recorded) ==
    /\ dkg_last.calls < max_calls
    /\ \E dkg_key \in DkgSessionIds, elder_candidates \in candidate_sets,
          failure \in StartFailures :
          LET r == start(Voter, NodeName, dkg_key, elder_candidates, failure)
          IN /\ sessions' = r.sessions
             /\ backlog' = r.backlog
             /\ commands' = r.commands
             /\ dkg_last' = [op |-> "start",
                             calls |-> dkg_last.calls + 1,
                             newest |-> IF r.stored
                                        THEN Max(dkg_last.newest, dkg_key.generation)
                                        ELSE dkg_last.newest,
                             arg |-> IF recorded
                                     THEN [dkg_key |-> dkg_key,
                                           elder_candidates |-> elder_candidates,
                                           failure |-> failure]
                                     ELSE [dkg_key |-> dkg_key,
                                           elder_candidates |-> elder_candidates],
                             existed |-> dkg_key \in SessionKeys(sessions),
                             stored |-> r.stored,
                             ok |-> r.ok]
    /\ UNCHANGED <<section_vars, net_vars>>

Start == StartWith(CandidateSets, MaxDkgCalls, FALSE)

\* A call of process_message.
ProcessMessageWithin(max_calls) ==
    /\ dkg_last.calls < max_calls
    /\ \E dkg_key \in DkgSessionIds, message \in DkgMessages :
          LET r == process_message(Voter, dkg_key, message)
          IN /\ sessions' = r.sessions
             /\ backlog' = r.backlog
             /\ commands' = r.commands
             /\ dkg_last' = [op |-> "process_message",
                             calls |-> dkg_last.calls + 1,
                             newest |-> dkg_last.newest,
                             arg |-> [dkg_key |-> dkg_key, message |-> message],
                             existed |-> dkg_key \in SessionKeys(sessions),
                             stored |-> FALSE,
                             ok |-> TRUE]
    /\ UNCHANGED <<section_vars, net_vars>>

ProcessMessage == ProcessMessageWithin(MaxDkgCalls)

\* DkgVoter::default
DkgInit ==
    /\ section = NoSection
    /\ last = NoCall
    /\ candidates = NotCalled
    /\ sessions = {}
    /\ backlog = <<>>
    /\ commands = <<>>
    /\ dkg_last = NoDkgCall
    /\ NetIdle

DkgNext ==
    \/ Start
    \/ ProcessMessage

DkgSpec == DkgInit /\ [][DkgNext]_vars

(***************************************************************************)
(* Properties of the DKG voter.                                            *)
(***************************************************************************)
StartedNow == dkg_last.op = "start" /\ ~dkg_last.existed

OutcomeCommands == {i \in 1 .. Len(commands) : commands[i].kind = "HandleDkgOutcome"}

\* C7: every DKG that start begins over n elder candidates has threshold
\* floor(2n/3) + 1 - 1: the key generator of every session, and the key set
\* of the single-candidate outcome, whose threshold is 0.
C7_ThresholdIsSupermajorityMinusOne ==
    /\ \A e \in sessions :
          e.session.key_gen.threshold =
              ((2 * Cardinality(e.session.elder_candidates)) \div 3 + 1) - 1
    /\ \A i \in OutcomeCommands :
          /\ commands[i].outcome.public_key_set.threshold =
                 ((2 * Cardinality(commands[i].section_auth.elders)) \div 3 + 1) - 1
          /\ commands[i].section_auth.public_key_set.threshold = 0

\* start has stored a session over the largest candidate set, whose
\* threshold is not that of a smaller set.
C7_Witness ==
    /\ dkg_last.op = "start" /\ dkg_last.stored
    /\ \E e \in sessions :
          /\ e.dkg_key = dkg_last.arg.dkg_key
          /\ Cardinality(e.session.elder_candidates) = MaxCandidates
          /\ e.session.key_gen.threshold > 1

\* C8: a start call whose session identifier already has a session returns
\* no commands and leaves the session map and the backlog as they were.
C8_StartOfExistingSessionIsNoOp ==
    [][(/\ dkg_last' # dkg_last
        /\ dkg_last'.op = "start"
        /\ dkg_last'.arg.dkg_key \in SessionKeys(sessions))
       => (/\ commands' = <<>>
           /\ sessions' = sessions
           /\ backlog' = backlog)]_vars

\* start has been called a second time with the identifier of a session
\* that exists, and with other candidates than the session's.
C8_Witness ==
    /\ dkg_last.op = "start" /\ dkg_last.existed
    /\ \E e \in sessions :
          /\ e.dkg_key = dkg_last.arg.dkg_key
          /\ e.session.elder_candidates # dkg_last.arg.elder_candidates
    /\ commands = <<>>

\* C9: a start call whose only elder candidate is this node, for an
\* identifier that has no session, returns exactly one command, a
\* HandleDkgOutcome with a key set of threshold 0 over that one elder and this
\* node's share of it, hence no DKG message, and stores no session.
C9_SingleCandidateOutcome ==
    (StartedNow /\ dkg_last.arg.elder_candidates = {NodeName}) =>
        /\ Len(commands) = 1
        /\ commands[1].kind = "HandleDkgOutcome"
        /\ commands[1].section_auth.elders = {NodeName}
        /\ commands[1].section_auth.public_key_set.threshold = 0
        /\ commands[1].outcome.public_key_set.threshold = 0
        /\ commands[1].outcome.index = 0
        /\ commands[1].outcome.secret_key_share = 0
        /\ dkg_last.arg.dkg_key \notin SessionKeys(sessions)
        /\ ~dkg_last.stored

\* The single-candidate start made while the voter holds another session
\* and a message in its backlog.
C9_Witness ==
    /\ StartedNow /\ dkg_last.arg.elder_candidates = {NodeName}
    /\ Len(commands) = 1
    /\ sessions # {} \/ backlog # <<>>

\* C10: after any start calls, in any order of generations, every session
\* retained has a generation at least the highest generation seen so far
\* (counting only the start calls that stored a session, which asks least).
C10_OnlyNewestGenerationRetained ==
    \A e \in sessions : e.dkg_key.generation >= dkg_last.newest

(***************************************************************************)
(* ReplaySpec: the DKG voter of a node that is one of three candidates,    *)
(* or none of two, over longer runs of start and process_message.          *)
(***************************************************************************)
ReplayCandidateSets == {1 .. 3, {1, 3}}

ReplayStart == StartWith(ReplayCandidateSets, MaxReplayCalls, TRUE)

ReplayProcessMessage == ProcessMessageWithin(MaxReplayCalls)

ReplayNext ==
    \/ ReplayStart
    \/ ReplayProcessMessage

ReplaySpec == DkgInit /\ [][ReplayNext]_vars

\* The messages the backlog holds for an identifier, in arrival order.
Buffered(queue, dkg_key) ==
    LET at == {i \in 1 .. Len(queue) : queue[i][1] = dkg_key}
        nth(k) == CHOOSE i \in at : Cardinality({j \in at : j < i}) = k - 1
    IN [k \in 1 .. Cardinality(at) |-> queue[nth(k)][2]]

\* C11: a message given to process_message while its identifier has no
\* session becomes the newest entry of the backlog and reaches no session;
\* and when start stores the session of an identifier, the session has
\* handled, after its own first message, exactly the messages the backlog
\* held for the identifier, once each and in arrival order, and the backlog
\* holds none of them any more.
C11_BacklogReplayedOnceInOrder ==
    [][/\ (/\ dkg_last' # dkg_last
           /\ dkg_last'.op = "process_message"
           /\ dkg_last'.arg.dkg_key \notin SessionKeys(sessions))
          => (/\ backlog' # <<>>
              /\ backlog'[Len(backlog')] =
                     <<dkg_last'.arg.dkg_key, dkg_last'.arg.message>>
              /\ sessions' = sessions)
       /\ (/\ dkg_last' # dkg_last
           /\ dkg_last'.op = "start"
           /\ dkg_last'.stored)
          => (/\ dkg_last'.arg.dkg_key \in SessionKeys(sessions')
              /\ SessionOf(sessions', dkg_last'.arg.dkg_key).key_gen.handled =
                     <<"Initialization">> \o Buffered(backlog, dkg_last'.arg.dkg_key)
              /\ Buffered(backlog', dkg_last'.arg.dkg_key) = <<>>)]_vars

\* start has stored a session that was handed two different buffered
\* messages, the backlog keeping none of its identifier.
C11_Witness ==
    /\ dkg_last.op = "start" /\ dkg_last.stored
    /\ \E e \in sessions :
          /\ e.dkg_key = dkg_last.arg.dkg_key
          /\ Len(e.session.key_gen.handled) = 3
          /\ e.session.key_gen.handled[2] # e.session.key_gen.handled[3]
    /\ Buffered(backlog, dkg_last.arg.dkg_key) = <<>>

(***************************************************************************)
(* Comm (routing/comm.rs).  `comm` holds node_conns, the connection cache,  *)
(* and the locals of the send_message_to_targets call in progress.  A       *)
(* cached connection is live, or stale once the peer has dropped it; a     *)
(* peer of `reachable` accepts a new connection and the message sent on it. *)
(***************************************************************************)
Addrs == {1, 2, 3}

ConnStates == {"none", "live", "stale"}

RECURSIVE DistinctSeqs(_)
\* The sequences of distinct elements of S, of every length.
DistinctSeqs(S) ==
    {<<>>} \cup UNION {{<<a>> \o t : t \in DistinctSeqs(S \ {a})} : a \in S}

NoSend == [some |-> FALSE]

\* Comm::new
NewComm ==
    [pc |-> "idle", node_conns |-> [a \in Addrs |-> "none"],
     recipients |-> <<>>, delivery_group_size |-> 0, group |-> 0,
     reachable |-> {}, tasks |-> {}, next |-> 0, successes |-> 0,
     failed_recipients |-> <<>>, launched |-> <<>>, outcomes |-> {},
     completed |-> 0, last_send |-> NoSend, result |-> "none"]

\* send_to leaving the connection that failed in the cache.
send_to_keeping_entry(node_conns, reachable, recipient) ==
    IF node_conns[recipient] = "live"
    THEN [ok |-> TRUE, node_conns |-> node_conns, connects |-> 0]
    ELSE IF recipient \in reachable
         THEN [ok |-> TRUE,
               node_conns |-> [node_conns EXCEPT ![recipient] = "live"],
               connects |-> 1]
         ELSE [ok |-> FALSE, node_conns |-> node_conns, connects |-> 1]

\* Comm::send_to: the result, the cache afterwards and the number of
\* connections attempted.
send_to(node_conns, reachable, recipient) ==
    IF node_conns[recipient] = "live"
    THEN [ok |-> TRUE, node_conns |-> node_conns, connects |-> 0]
    ELSE LET removed == [node_conns EXCEPT ![recipient] = "none"]
         IN IF recipient \in reachable
            THEN [ok |-> TRUE,
                  node_conns |-> [removed EXCEPT ![recipient] = "live"],
                  connects |-> 1]
            ELSE [ok |-> FALSE, node_conns |-> removed, connects |-> 1]

\* send_message_to_targets: delivery_group_size.min(recipients.len())
delivery_group(recipients, delivery_group_size) ==
    IF delivery_group_size <= Len(recipients)
    THEN delivery_group_size ELSE Len(recipients)

\* The loop body giving up after a failed send.
handle_send_result_no_retry(c, ok, addr) ==
    IF ok THEN [c EXCEPT !.successes = @ + 1]
    ELSE [c EXCEPT !.failed_recipients = Append(@, addr)]

\* The loop body recording a failed recipient only when another is tried.
handle_send_result_if_next(c, ok, addr) ==
    IF ok THEN [c EXCEPT !.successes = @ + 1]
    ELSE IF c.next < Len(c.recipients)
         THEN [c EXCEPT !.failed_recipients = Append(@, addr),
                        !.tasks = @ \cup {c.recipients[c.next + 1]},
                        !.launched = Append(@, c.recipients[c.next + 1]),
                        !.next = @ + 1]
         ELSE c

\* The loop body trying the next recipient after every send, failed or not.
handle_send_result_always_next(c, ok, addr) ==
    LET counted == IF ok THEN [c EXCEPT !.successes = @ + 1]
                   ELSE [c EXCEPT !.failed_recipients = Append(@, addr)]
    IN IF c.next < Len(c.recipients)
       THEN [counted EXCEPT !.tasks = @ \cup {c.recipients[c.next + 1]},
                            !.launched = Append(@, c.recipients[c.next + 1]),
                            !.next = @ + 1]
       ELSE counted

\* send_message_to_targets: the body of the loop over the finished sends.
handle_send_result(c, ok, addr) ==
    IF ok THEN [c EXCEPT !.successes = @ + 1]
    ELSE LET failed == [c EXCEPT !.failed_recipients = Append(@, addr)]
         IN IF c.next < Len(c.recipients)
            THEN [failed EXCEPT !.tasks = @ \cup {c.recipients[c.next + 1]},
                                !.launched = Append(@, c.recipients[c.next + 1]),
                                !.next = @ + 1]
            ELSE failed

\* send_message_to_targets: the Result it returns.
send_result(successes, group) == IF successes = group THEN "Ok" ELSE "Err"

\* The call of send_message_to_targets: the first sends are started.
SendMessageToTargets ==
    /\ comm.pc = "idle"
    /\ \E recipients \in DistinctSeqs(Addrs),
          delivery_group_size \in 0 .. MaxGroupSize :
       \E reachable \in SUBSET {recipients[i] : i \in 1 .. Len(recipients)} :
          LET group == delivery_group(recipients, delivery_group_size)
          IN comm' = [comm EXCEPT
                 !.pc = "sending", !.completed = 0,
                 !.recipients = recipients,
                 !.delivery_group_size = delivery_group_size,
                 !.group = group,
                 !.reachable = reachable,
                 !.tasks = {recipients[i] : i \in 1 .. group},
                 !.launched = SubSeq(recipients, 1, group),
                 !.next = group, !.successes = 0,
                 !.failed_recipients = <<>>, !.outcomes = {},
                 !.last_send = NoSend, !.result = "none"]
    /\ UNCHANGED <<section_vars, dkg_vars, incoming, query, more_vars>>

\* tasks.next(): one of the sends in flight finishes and the loop handles it.
SendFinishes ==
    /\ comm.pc = "sending"
    /\ \E addr \in comm.tasks :
          LET sent == send_to(comm.node_conns, comm.reachable, addr)
              taken == [comm EXCEPT
                  !.tasks = @ \ {addr},
                  !.node_conns = sent.node_conns,
                  !.outcomes = @ \cup {<<addr, sent.ok>>},
                  !.completed = @ + 1,
                  !.last_send = [some |-> TRUE, recipient |-> addr,
                                 cached |-> comm.node_conns[addr],
                                 ok |-> sent.ok, connects |-> sent.connects]]
          IN comm' = handle_send_result(taken, sent.ok, addr)
    /\ UNCHANGED <<section_vars, dkg_vars, incoming, query, more_vars>>

\* No send is left in flight: send_message_to_targets returns.
SendReturns ==
    /\ comm.pc = "sending"
    /\ comm.tasks = {}
    /\ comm' = [comm EXCEPT !.pc = "done",
                            !.result = send_result(comm.successes, comm.group)]
    /\ UNCHANGED <<section_vars, dkg_vars, incoming, query, more_vars>>

\* The caller has the result: the locals of the call are gone.
SendDone ==
    /\ comm.pc = "done"
    /\ comm' = [NewComm EXCEPT !.node_conns = comm.node_conns]
    /\ UNCHANGED <<section_vars, dkg_vars, incoming, query, more_vars>>

\* Between two calls, a peer drops a connection the cache holds.
ConnectionLost ==
    /\ comm.pc = "idle"
    /\ \E addr \in Addrs :
          /\ comm.node_conns[addr] = "live"
          /\ comm' = [comm EXCEPT !.node_conns[addr] = "stale"]
    /\ UNCHANGED <<section_vars, dkg_vars, incoming, query, more_vars>>

CommInit ==
    /\ section = NoSection
    /\ last = NoCall
    /\ candidates = NotCalled
    /\ sessions = {}
    /\ backlog = <<>>
    /\ commands = <<>>
    /\ dkg_last = NoDkgCall
    /\ comm = NewComm
    /\ incoming = [pc |-> "none"]
    /\ query = [pc |-> "none"]
    /\ MoreIdle

CommNext ==
    \/ SendMessageToTargets
    \/ SendFinishes
    \/ SendReturns
    \/ SendDone
    \/ ConnectionLost

\* Every send that was started finishes, and the call then returns.
CommSpec ==
    /\ CommInit
    /\ [][CommNext]_vars
    /\ WF_vars(SendFinishes)
    /\ WF_vars(SendReturns)

(***************************************************************************)
(* Properties of Comm.                                                     *)
(***************************************************************************)
InCall == comm.pc \in {"sending", "done"}

Succeeded == {o[1] : o \in {p \in comm.outcomes : p[2]}}

Failed == {o[1] : o \in {p \in comm.outcomes : ~p[2]}}

Elements(seq) == {seq[i] : i \in 1 .. Len(seq)}

NoRepeats(seq) == Cardinality(Elements(seq)) = Len(seq)

\* The recipients a send to which succeeds: a live connection is cached, or
\* the peer accepts a new one.
Reachable ==
    {a \in Elements(comm.recipients) :
        comm.node_conns[a] = "live" \/ a \in comm.reachable}

\* C12: send_message_to_targets returns Ok if delivery_group_size sends
\* succeeded and Err if fewer did, whatever the recipients and the size, a
\* recipients list shorter than delivery_group_size included.
C12_OkIffGroupSizeSucceeded ==
    comm.pc = "done" =>
        (comm.result = "Ok" <=> Cardinality(Succeeded) >= comm.delivery_group_size)

\* What the call has tried: the recipients in their order, one more for
\* every failed send while there are any, none twice; it returns once
\* delivery_group_size sends succeeded or every recipient was tried, with Ok
\* if delivery_group_size of the recipients are reachable.
TriesNextUntilDone ==
    InCall =>
        /\ NoRepeats(comm.launched)
        /\ comm.launched = SubSeq(comm.recipients, 1, Len(comm.launched))
        /\ Len(comm.launched) =
               IF comm.group + Cardinality(Failed) <= Len(comm.recipients)
               THEN comm.group + Cardinality(Failed)
               ELSE Len(comm.recipients)
        /\ Cardinality(Succeeded) <= comm.delivery_group_size
        /\ comm.pc = "done" =>
              /\ \/ Cardinality(Succeeded) = comm.delivery_group_size
                 \/ Elements(comm.launched) = Elements(comm.recipients)
              /\ Cardinality(Reachable) >= comm.delivery_group_size
                     => comm.result = "Ok"

\* C13: after a failed send the next recipient not yet tried is tried, each
\* at most once, until delivery_group_size sends succeeded or none is left;
\* the call returns, with Ok when delivery_group_size of the recipients are
\* reachable.
C13_RetriesNextAndTerminates ==
    /\ []TriesNextUntilDone
    /\ (comm.pc = "sending") ~> (comm.pc = "done")

\* The call has returned Ok after two failed sends were made up for.
C13_Witness ==
    /\ comm.pc = "done" /\ comm.result = "Ok"
    /\ Cardinality(Failed) = 2
    /\ comm.delivery_group_size = 1

\* C14: the list send_message_to_targets returns holds exactly the
\* recipients a send to which was tried and failed, each once: none whose
\* send succeeded, none that was never tried.
C14_FailedRecipientsExact ==
    InCall =>
        /\ Elements(comm.failed_recipients) = Failed
        /\ NoRepeats(comm.failed_recipients)
        /\ Elements(comm.failed_recipients) \cap Succeeded = {}
        /\ Elements(comm.failed_recipients) \subseteq Elements(comm.launched)

\* The call has returned with a failed recipient, a successful one and one
\* never tried.
C14_Witness ==
    /\ comm.pc = "done"
    /\ Len(comm.failed_recipients) = 1
    /\ Cardinality(Succeeded) = 1
    /\ Len(comm.launched) < Len(comm.recipients)

\* C15: when the send on the cached connection fails, send_to attempts one
\* new connection; if the send on it succeeds the send succeeds and a live
\* connection is cached, otherwise the send fails and no connection to the
\* recipient is cached.
C15_ReconnectsOnceAfterCachedFailure ==
    (InCall /\ comm.last_send.some /\ comm.last_send.cached = "stale") =>
        LET recipient == comm.last_send.recipient
        IN /\ comm.last_send.connects = 1
           /\ comm.last_send.ok <=> recipient \in comm.reachable
           /\ comm.last_send.ok =>
                 /\ comm.node_conns[recipient] = "live"
                 /\ recipient \in Succeeded
           /\ ~comm.last_send.ok =>
                 /\ comm.node_conns[recipient] = "none"
                 /\ recipient \in Failed

\* A send on a stale cached connection has failed, and so has the new
\* connection.
C15_Witness ==
    /\ InCall /\ comm.last_send.some
    /\ comm.last_send.cached = "stale"
    /\ ~comm.last_send.ok

(***************************************************************************)
(* IncomingConnections (routing/comm.rs).  The watch channel `cancel` has a *)
(* version that every broadcast raises; a receiver's recv() returns once    *)
(* the version is newer than the one the receiver has seen, or the sender   *)
(* is gone, and a clone of a receiver has seen what the receiver has seen.  *)
(* Task 0 is handle_incoming_connections, task c > 0 is the                 *)
(* handle_incoming_messages of the c-th connection.  `event_rx` is the     *)
(* queue of the mpsc channel of events, `delivered` what next() has        *)
(* returned so far, kept by connection, and `ended` the connections whose  *)
(* peer has closed them.                                                   *)
(***************************************************************************)
Conns == 1 .. MaxConns

\* The messages a peer sends on one connection, in this order.
ConnMsgs == {1, 2}

\* mpsc::channel(1)
EVENT_CHANNEL_SIZE == 1

\* ConnectionEvent::Received of the msg-th message of connection c.
Received(c, msg) == [kind |-> "Received", src |-> c, msg |-> msg]

\* ConnectionEvent::Disconnected with the remote address of connection c.
Disconnected(c) == [kind |-> "Disconnected", src |-> c, msg |-> 0]

\* mpsc::Sender::send can complete: the queue has room, or the receiver is
\* gone and the send fails at once.
SendReady(in) == in.pc = "dropped" \/ Len(in.event_rx) < EVENT_CHANNEL_SIZE

\* mpsc::Sender::send: the event is queued unless the receiver is gone.
EventSend(in, event) ==
    IF in.pc = "dropped" THEN in ELSE [in EXCEPT !.event_rx = Append(@, event)]

NotSpawned == [state |-> "none", seen |-> 0, pumped |-> 0]

\* watch::channel(false): no receiver has seen the first value.
WatchChannel == [value |-> FALSE, version |-> 1, closed |-> FALSE]

\* watch::Receiver::recv is ready for a receiver that has seen `seen`.
RecvReady(cancel, seen) == cancel.closed \/ seen < cancel.version

\* watch::Sender::broadcast
Broadcast(cancel, value) ==
    [cancel EXCEPT !.value = value, !.version = @ + 1]

\* task::spawn(cancellable(cancel_rx, future)): the receiver handed over has
\* seen `seen`.
Spawned(seen) == [state |-> "running", seen |-> seen, pumped |-> 0]

\* IncomingConnections::new handing the tasks a receiver that never
\* received.
new_incoming_connections_unreceived(cancel) ==
    [pc |-> "open", cancel |-> cancel, cancel_rx |-> 0,
     event_rx |-> <<>>, delivered |-> [c \in Conns |-> <<>>], ended |-> {},
     tasks |-> [t \in {0} \cup Conns |->
                   IF t = 0 THEN Spawned(0) ELSE NotSpawned]]

\* IncomingConnections::new: cancel_rx receives once, then the accepting
\* task is spawned with a clone of it.
new_incoming_connections(cancel) ==
    LET cancel_rx == IF RecvReady(cancel, 0) THEN cancel.version ELSE 0
    IN [pc |-> "open", cancel |-> cancel, cancel_rx |-> cancel_rx,
        event_rx |-> <<>>, delivered |-> [c \in Conns |-> <<>>], ended |-> {},
        tasks |-> [t \in {0} \cup Conns |->
                      IF t = 0 THEN Spawned(cancel_rx) ELSE NotSpawned]]

\* Comm::listen
Listen ==
    /\ incoming.pc = "none"
    /\ incoming' = new_incoming_connections(WatchChannel)
    /\ UNCHANGED <<section_vars, dkg_vars, comm, query, more_vars>>

\* handle_incoming_connections: a peer has connected and the task that pumps
\* its messages is spawned with a clone of cancel_rx.
IncomingConnection ==
    /\ incoming.pc \in {"open", "dropped"}
    /\ incoming.tasks[0].state = "running"
    /\ \E c \in Conns :
          /\ incoming.tasks[c].state = "none"
          /\ \A d \in Conns : d < c => incoming.tasks[d].state # "none"
          /\ incoming' = [incoming EXCEPT !.tasks[c] = Spawned(incoming.cancel_rx)]
    /\ UNCHANGED <<section_vars, dkg_vars, comm, query, more_vars>>

\* handle_incoming_connections: incoming_conns.next() is None.
IncomingConnectionsEnd ==
    /\ incoming.pc \in {"open", "dropped"}
    /\ incoming.tasks[0].state = "running"
    /\ incoming' = [incoming EXCEPT !.tasks[0].state = "finished"]
    /\ UNCHANGED <<section_vars, dkg_vars, comm, query, more_vars>>

\* handle_incoming_messages sending Disconnected after every message.
handle_incoming_message_disconnecting(in, c) ==
    LET msg == in.tasks[c].pumped + 1
    IN [EventSend(EventSend(in, Received(c, msg)), Disconnected(c))
           EXCEPT !.tasks[c].pumped = msg]

\* handle_incoming_messages, the body of the loop: the next message of the
\* connection is sent on as a Received event.
handle_incoming_message(in, c) ==
    LET msg == in.tasks[c].pumped + 1
    IN [EventSend(in, Received(c, msg)) EXCEPT !.tasks[c].pumped = msg]

\* handle_incoming_messages after the loop: Disconnected is sent with the
\* remote address and the task is over.
handle_incoming_messages_end(in, c) ==
    [EventSend(in, Disconnected(c)) EXCEPT !.tasks[c].state = "finished"]

\* handle_incoming_messages: a message of the connection is passed on.
IncomingMessage ==
    /\ incoming.pc \in {"open", "dropped"}
    /\ SendReady(incoming)
    /\ \E c \in Conns \ incoming.ended :
          /\ incoming.tasks[c].state = "running"
          /\ incoming.tasks[c].pumped + 1 \in ConnMsgs
          /\ incoming' = handle_incoming_message(incoming, c)
    /\ UNCHANGED <<section_vars, dkg_vars, comm, query, more_vars>>

\* The peer closes a connection: its incoming_msgs.next() is None from now on.
ConnectionEnds ==
    /\ incoming.pc \in {"open", "dropped"}
    /\ \E c \in Conns \ incoming.ended :
          /\ incoming.tasks[c].state = "running"
          /\ incoming' = [incoming EXCEPT !.ended = @ \cup {c}]
    /\ UNCHANGED <<section_vars, dkg_vars, comm, query, more_vars>>

\* handle_incoming_messages of connection c: the connection is closed and
\* Disconnected sent.
MessagesEnd(c) ==
    /\ incoming.pc \in {"open", "dropped"}
    /\ SendReady(incoming)
    /\ c \in incoming.ended
    /\ incoming.tasks[c].state = "running"
    /\ incoming' = handle_incoming_messages_end(incoming, c)
    /\ UNCHANGED <<section_vars, dkg_vars, comm, query, more_vars>>

IncomingMessagesEnd == \E c \in Conns : MessagesEnd(c)

\* IncomingConnections::next: the oldest event of the channel is returned.
NextEvent ==
    /\ incoming.pc = "open"
    /\ incoming.event_rx # <<>>
    /\ LET event == Head(incoming.event_rx)
       IN incoming' = [incoming EXCEPT
              !.event_rx = Tail(@),
              !.delivered[event.src] = Append(@, event)]
    /\ UNCHANGED <<section_vars, dkg_vars, comm, query, more_vars>>

\* Drop for IncomingConnections: true is broadcast, then cancel_tx is gone,
\* and so is event_rx with the events still queued.
DropIncoming ==
    /\ incoming.pc = "open"
    /\ incoming' = [incoming EXCEPT
           !.pc = "dropped",
           !.event_rx = <<>>,
           !.cancel = [Broadcast(incoming.cancel, TRUE) EXCEPT !.closed = TRUE]]
    /\ UNCHANGED <<section_vars, dkg_vars, comm, query, more_vars>>

\* cancellable: the select takes the branch of cancel_rx.recv().
Cancelled(t) ==
    /\ incoming.pc \in {"open", "dropped"}
    /\ incoming.tasks[t].state = "running"
    /\ RecvReady(incoming.cancel, incoming.tasks[t].seen)
    /\ incoming' = [incoming EXCEPT !.tasks[t].state = "cancelled"]
    /\ UNCHANGED <<section_vars, dkg_vars, comm, query, more_vars>>

TaskCancelled == \E t \in {0} \cup Conns : Cancelled(t)

IncomingInit ==
    /\ section = NoSection
    /\ last = NoCall
    /\ candidates = NotCalled
    /\ sessions = {}
    /\ backlog = <<>>
    /\ commands = <<>>
    /\ dkg_last = NoDkgCall
    /\ NetIdle

IncomingNext ==
    \/ Listen
    \/ IncomingConnection
    \/ IncomingConnectionsEnd
    \/ IncomingMessage
    \/ ConnectionEnds
    \/ IncomingMessagesEnd
    \/ NextEvent
    \/ DropIncoming
    \/ TaskCancelled

\* A task whose cancel_rx.recv() is ready is woken and takes that branch; the
\* owner of the stream keeps calling next(); and a task waiting to send gets
\* its turn, the channel serving the waiting senders in turn.
IncomingSpec ==
    /\ IncomingInit
    /\ [][IncomingNext]_vars
    /\ \A t \in {0} \cup Conns : WF_vars(Cancelled(t))
    /\ WF_vars(NextEvent)
    /\ \A c \in Conns : SF_vars(MessagesEnd(c))

IncomingTasks == IF incoming.pc = "none" THEN {} ELSE {0} \cup Conns

\* C16: no task of the stream is cancelled before the stream is dropped, and
\* once it is dropped the accepting task and every task that pumps a
\* connection stop.
C16_DropCancelsEveryTask ==
    /\ [](\A t \in IncomingTasks :
             incoming.tasks[t].state = "cancelled" => incoming.pc = "dropped")
    /\ (incoming.pc = "dropped")
           ~> (\A t \in IncomingTasks : incoming.tasks[t].state # "running")

\* After the drop the accepting task and the tasks of all the connections
\* have been cancelled.
C16_Witness ==
    /\ incoming.pc = "dropped"
    /\ \A t \in IncomingTasks : incoming.tasks[t].state = "cancelled"
    /\ \E c \in Conns : incoming.tasks[c].pumped = 1

(***************************************************************************)
(* Client Session::send_query (client/connections/messaging.rs).  `query`   *)
(* holds pending_queries (the operation ids that have a response channel),  *)
(* the channel of the query and the locals of the call.  The listener that  *)
(* hands a response to the channel registered for its operation id is not   *)
(* part of send_query; a response that finds no channel is dropped.         *)
(***************************************************************************)
NUM_OF_ELDERS_SUBSET_FOR_QUERIES == 3

QueryKinds == {"GetChunk", "GetRegister"}

\* The responses an elder gives to a query of a kind: a chunk of the
\* queried name, a chunk of another name, or an error; a register or an error.
ResponsesTo(kind) ==
    IF kind = "GetChunk"
    THEN {"GetChunk(Ok(chunk))", "GetChunk(Ok(other chunk))", "GetChunk(Err)"}
    ELSE {"GetRegister(Ok)", "GetRegister(Err)"}

QueryResponses == ResponsesTo("GetChunk") \cup ResponsesTo("GetRegister")

IsChunkOk(response) ==
    response \in {"GetChunk(Ok(chunk))", "GetChunk(Ok(other chunk))"}

\* chunk_addr.name() == chunk.name()
ChunkNameMatches(response) == response = "GetChunk(Ok(chunk))"

NoResponse == [some |-> FALSE]

SomeResponse(response) == [some |-> TRUE, response |-> response]

\* The operation id of the query; the Session is used for one query.
OpId == 1

\* Session::new: nothing is pending.
NewSession ==
    [pc |-> "idle", kind |-> "none", elders_len |-> 0, join_errors |-> 0,
     sent |-> {}, responded |-> {}, inserting |-> FALSE, removing |-> FALSE,
     pending |-> {}, channel |-> <<>>, received |-> <<>>,
     discarded_responses |-> 0, response |-> NoResponse, result |-> "none"]

\* The loop body returning the first chunk whatever its name.
query_loop_step_unvalidated(q, received) ==
    LET is_chunk_query == q.kind = "GetChunk"
        is_error == \/ received = "GetChunk(Err)" /\ is_chunk_query
                    \/ received = "GetRegister(Err)" /\ ~is_chunk_query
        error_response == IF is_error THEN SomeResponse(received) ELSE NoResponse
        discarded == IF is_error THEN q.discarded_responses + 1
                     ELSE q.discarded_responses
    IN IF ~is_error
       THEN [break |-> TRUE, response |-> SomeResponse(received),
             discarded_responses |-> discarded]
       ELSE IF discarded = q.elders_len
       THEN [break |-> TRUE, response |-> error_response,
             discarded_responses |-> discarded]
       ELSE [break |-> FALSE, response |-> NoResponse,
             discarded_responses |-> discarded]

\* The loop body dropping a mismatching chunk without counting it.
query_loop_step_uncounted(q, received) ==
    LET is_chunk_query == q.kind = "GetChunk"
        is_discarded_chunk == /\ is_chunk_query /\ IsChunkOk(received)
                              /\ ~ChunkNameMatches(received)
        is_error == \/ received = "GetChunk(Err)" /\ is_chunk_query
                    \/ received = "GetRegister(Err)" /\ ~is_chunk_query
        error_response == IF is_error THEN SomeResponse(received) ELSE NoResponse
        discarded == IF is_error THEN q.discarded_responses + 1
                     ELSE q.discarded_responses
    IN IF ~is_discarded_chunk /\ ~is_error
       THEN [break |-> TRUE, response |-> SomeResponse(received),
             discarded_responses |-> discarded]
       ELSE IF discarded = q.elders_len /\ is_error
       THEN [break |-> TRUE, response |-> error_response,
             discarded_responses |-> discarded]
       ELSE [break |-> FALSE, response |-> NoResponse,
             discarded_responses |-> discarded]

\* send_query: one turn of the loop over the responses, error_response
\* being declared inside the loop.
query_loop_step(q, received) ==
    LET is_chunk_query == q.kind = "GetChunk"
        is_discarded_chunk == /\ is_chunk_query /\ IsChunkOk(received)
                              /\ ~ChunkNameMatches(received)
        is_error == \/ received = "GetChunk(Err)" /\ is_chunk_query
                    \/ received = "GetRegister(Err)" /\ ~is_chunk_query
        error_response == IF is_error THEN SomeResponse(received) ELSE NoResponse
        discarded == IF is_discarded_chunk \/ is_error
                     THEN q.discarded_responses + 1
                     ELSE q.discarded_responses
    IN IF ~is_discarded_chunk /\ ~is_error
       THEN [break |-> TRUE, response |-> SomeResponse(received),
             discarded_responses |-> discarded]
       ELSE IF discarded = q.elders_len
       THEN [break |-> TRUE, response |-> error_response,
             discarded_responses |-> discarded]
       ELSE [break |-> FALSE, response |-> NoResponse,
             discarded_responses |-> discarded]

\* send_query: what it returns for the response the loop ended with.
query_result(response) ==
    IF response.some THEN "Ok(QueryResult)" ELSE "Err(NoResponse)"

(***************************************************************************)
(* QuerySpec: one query on a fresh Session.  The call is taken up to the    *)
(* wait for the first response in one step; the spawned insertion and       *)
(* removal of the pending-query entry, the elders' answers and every turn   *)
(* of the response loop are steps of their own.                             *)
(***************************************************************************)
Min(a, b) == IF a < b THEN a ELSE b

\* send_query up to the response loop: the early returns, the spawned
\* insertion into pending_queries, the send tasks and join_all.  sent are
\* the elders whose send succeeded, panicked the tasks that gave a JoinError.
SendQuery ==
    /\ query.pc = "idle"
    /\ \E kind \in QueryKinds, sap_known \in BOOLEAN, elders \in 0 .. MaxQueryElders :
          LET elders_len == Min(elders, NUM_OF_ELDERS_SUBSET_FOR_QUERIES)
          IN IF ~sap_known
             THEN query' = [query EXCEPT !.pc = "returned", !.kind = kind,
                                         !.result = "Err(NoNetworkKnowledge)"]
             ELSE IF elders_len < NUM_OF_ELDERS_SUBSET_FOR_QUERIES /\ elders_len > 1
             THEN query' = [query EXCEPT !.pc = "returned", !.kind = kind,
                                         !.elders_len = elders_len,
                                         !.result = "Err(InsufficientElderConnections)"]
             ELSE \E sent \in SUBSET (1 .. elders_len) :
                  \E panicked \in SUBSET ((1 .. elders_len) \ sent) :
                     query' = [query EXCEPT !.pc = "waiting", !.kind = kind,
                                            !.elders_len = elders_len,
                                            !.inserting = TRUE,
                                            !.sent = sent,
                                            !.join_errors = Cardinality(panicked),
                                            !.discarded_responses = Cardinality(panicked)]
    /\ UNCHANGED <<section_vars, dkg_vars, comm, incoming, more_vars>>

\* The task spawned by send_query that registers the channel of the query.
InsertPendingQuery ==
    /\ query.inserting
    /\ query' = [query EXCEPT !.inserting = FALSE,
                              !.pending = query.pending \cup {OpId}]
    /\ UNCHANGED <<section_vars, dkg_vars, comm, incoming, more_vars>>

\* An elder that got the query answers it; the answer reaches the channel
\* registered for the operation id, if there is one.
ElderResponds(elder) ==
    /\ query.pc \in {"waiting", "returned"}
    /\ elder \in query.sent \ query.responded
    /\ \E response \in ResponsesTo(query.kind) :
          query' = [query EXCEPT !.responded = query.responded \cup {elder},
                                 !.channel = IF OpId \in query.pending /\ query.pc = "waiting"
                                             THEN Append(query.channel, response)
                                             ELSE query.channel]
    /\ UNCHANGED <<section_vars, dkg_vars, comm, incoming, more_vars>>

\* send_query: receiver.recv() yields a response; one turn of the loop and,
\* when it breaks, the rest of the call.
ReceiveResponse ==
    /\ query.pc = "waiting"
    /\ query.channel # <<>>
    /\ LET step == query_loop_step(query, Head(query.channel))
       IN query' = [query EXCEPT
                       !.channel = Tail(query.channel),
                       !.received = Append(query.received, Head(query.channel)),
                       !.discarded_responses = step.discarded_responses,
                       !.pc = IF step.break THEN "returned" ELSE "waiting",
                       !.response = step.response,
                       !.removing = step.break /\ step.response.some,
                       !.result = IF step.break THEN query_result(step.response)
                                  ELSE "none"]
    /\ UNCHANGED <<section_vars, dkg_vars, comm, incoming, more_vars>>

\* The task spawned at the end of send_query that removes the entry.
RemovePendingQuery ==
    /\ query.removing
    /\ query' = [query EXCEPT !.removing = FALSE,
                              !.pending = query.pending \ {OpId}]
    /\ UNCHANGED <<section_vars, dkg_vars, comm, incoming, more_vars>>

QueryInit ==
    /\ section = NoSection
    /\ last = NoCall
    /\ candidates = NotCalled
    /\ sessions = {}
    /\ backlog = <<>>
    /\ commands = <<>>
    /\ dkg_last = NoDkgCall
    /\ comm = [pc |-> "none"]
    /\ incoming = [pc |-> "none"]
    /\ query = NewSession
    /\ MoreIdle

QueryNext ==
    \/ SendQuery
    \/ InsertPendingQuery
    \/ \E elder \in 1 .. NUM_OF_ELDERS_SUBSET_FOR_QUERIES : ElderResponds(elder)
    \/ ReceiveResponse
    \/ RemovePendingQuery

QuerySpec ==
    /\ QueryInit /\ [][QueryNext]_vars
    /\ WF_vars(InsertPendingQuery) /\ WF_vars(ReceiveResponse)
    /\ WF_vars(RemovePendingQuery)

(***************************************************************************)
(* Properties of send_query.                                                *)
(***************************************************************************)
MismatchingChunk == "GetChunk(Ok(other chunk))"

\* The response the loop takes in this step, if it takes one.
Receives(response) ==
    /\ query.pc = "waiting"
    /\ query.channel # <<>>
    /\ Head(query.channel) = response
    /\ query'.received = Append(query.received, response)

\* C17: a chunk query never returns a chunk whose name differs from the
\* queried address: the loop discards such a response, counts it as a failed
\* response, and keeps waiting while fewer responses than selected elders
\* have failed.
C17_MismatchingChunkDiscarded ==
    /\ [](query.kind = "GetChunk" => query.response # SomeResponse(MismatchingChunk))
    /\ [][(query.kind = "GetChunk" /\ Receives(MismatchingChunk)) =>
            /\ query'.discarded_responses = query.discarded_responses + 1
            /\ (query'.discarded_responses < query.elders_len =>
                  query'.pc = "waiting" /\ query'.result = "none")]_vars

\* A mismatching chunk was discarded and the matching one of another elder
\* was returned after it.
C17_Witness ==
    /\ query.pc = "returned"
    /\ query.kind = "GetChunk"
    /\ query.received = <<MismatchingChunk, "GetChunk(Ok(chunk))">>
    /\ query.discarded_responses = 1
    /\ query.response = SomeResponse("GetChunk(Ok(chunk))")

\* Every selected elder's answer has been taken by the loop.
AllEldersHeard ==
    /\ query.elders_len >= 1
    /\ Len(query.received) = query.elders_len

\* C18: when every selected elder answers a chunk query with a chunk whose
\* name does not match the queried address, send_query returns
\* Error::NoResponse.
C18_AllMismatchingGivesNoResponse ==
    (/\ query.kind = "GetChunk"
     /\ AllEldersHeard
     /\ \A i \in 1 .. Len(query.received) : query.received[i] = MismatchingChunk)
    => /\ query.pc = "returned"
       /\ query.response = NoResponse
       /\ query.result = "Err(NoResponse)"

\* Three elders were selected and each answered with a mismatching chunk.
C18_Witness ==
    /\ query.pc = "returned"
    /\ query.kind = "GetChunk"
    /\ query.elders_len = NUM_OF_ELDERS_SUBSET_FOR_QUERIES
    /\ query.received = <<MismatchingChunk, MismatchingChunk, MismatchingChunk>>
    /\ query.result = "Err(NoResponse)"

IsError(response) == response \in {"GetChunk(Err)", "GetRegister(Err)"}

\* The answers the loop has taken so far.
ReceivedResponses == {query.received[i] : i \in 1 .. Len(query.received)}

\* Every selected elder has been heard from: its answer was taken by the
\* loop or its send task failed to join.
Exhausted == Len(query.received) + query.join_errors = query.elders_len

\* C19: an error response is held as a fallback.  It is returned only when
\* all selected elders have been heard from and none gave a valid non-error
\* response; and whenever the elders are exhausted that way with an error
\* among the answers, in whatever order they came, the result is one of the
\* errors received and not NoResponse.
C19_ErrorHeldAsFallback ==
    query.pc = "returned" /\ query.received # <<>> =>
       /\ (query.response.some /\ IsError(query.response.response)) =>
             /\ Exhausted
             /\ \A r \in ReceivedResponses : IsError(r) \/ r = MismatchingChunk
       /\ (/\ Exhausted
           /\ \A r \in ReceivedResponses : IsError(r) \/ r = MismatchingChunk
           /\ \E r \in ReceivedResponses : IsError(r)) =>
             /\ query.response.some
             /\ query.response.response \in ReceivedResponses
             /\ IsError(query.response.response)
             /\ query.result # "Err(NoResponse)"

\* send_query went through its response loop and returned.
Finished ==
    /\ query.pc = "returned"
    /\ query.result \in {"Ok(QueryResult)", "Err(NoResponse)"}

\* C20: once send_query has finished, with a response (completion) or
\* without one after the selected elders are exhausted (exhaustion), the
\* pending_queries entry of the query's operation id gets removed.
C20_PendingEntryRemoved == Finished ~> (OpId \notin query.pending)

\* C21: send_query always eventually returns, also when a selected elder
\* never answers, when a send to an elder failed, or when there is no elder
\* to query.
C21_SendQueryReturns == (query.pc = "waiting") ~> (query.pc = "returned")

(***************************************************************************)
(* The client's fan-out send_message, send_cmd and make_contact_with_nodes  *)
(* (client/connections/messaging.rs).                                       *)
(***************************************************************************)
NODES_TO_CONTACT_PER_STARTUP_BATCH == 3

\* What becomes of the task spawned for one target: the message is sent,
\* connect_to fails, send_with fails, or the task does not join.
SendOutcomes == {"sent", "connect failed", "send failed", "join error"}

\* The outcomes of the tasks of a fan-out to n targets.
FanOuts(n) == [1 .. n -> SendOutcomes]

Successes(outcomes) ==
    Cardinality({i \in DOMAIN outcomes : outcomes[i] = "sent"})

\* send_message propagating the failure of a task.
send_message_propagating(n, outcomes, serialises) ==
    IF ~serialises
    THEN [result |-> "Err(Serialisation)", successes |-> 0, failures |-> 0]
    ELSE [result |-> IF n - Successes(outcomes) > 0 THEN "Err(Send)" ELSE "Ok",
          successes |-> Successes(outcomes),
          failures |-> n - Successes(outcomes)]

\* send_message(elders, wire_msg, endpoint, msg_id) for n elders: the
\* successes are counted, the failures logged, the result is Ok.
send_message(n, outcomes, serialises) ==
    IF ~serialises
    THEN [result |-> "Err(Serialisation)", successes |-> 0, failures |-> 0]
    ELSE [result |-> "Ok",
          successes |-> Successes(outcomes),
          failures |-> n - Successes(outcomes)]

NoClientCall ==
    [pc |-> "idle", op |-> "none", result |-> "none", targets |-> 0,
     outcomes |-> <<>>, serialises |-> TRUE, genesis_only |-> FALSE,
     known |-> FALSE, contacts |-> 0, batches |-> <<>>, reached |-> 0,
     knowledge_checks |-> 0, outgoing_msg_rounds |-> 0, last_start_pos |-> 0]

\* Session::send_cmd: the first targets_count elders of the known section.
SendCmd ==
    /\ client.pc = "idle"
    /\ \E sap_known \in BOOLEAN, elders \in 0 .. MaxNodes,
          targets_count \in 0 .. MaxNodes, serialises \in BOOLEAN :
          LET taken == Min(elders, targets_count)
          IN IF ~sap_known
             THEN client' = [NoClientCall EXCEPT !.pc = "returned", !.op = "send_cmd",
                                !.result = "Err(NoNetworkKnowledge)"]
             ELSE IF taken < targets_count
             THEN client' = [NoClientCall EXCEPT !.pc = "returned", !.op = "send_cmd",
                                !.known = TRUE,
                                !.result = "Err(InsufficientElderConnections)"]
             ELSE \E outcomes \in FanOuts(taken) :
                     client' = [NoClientCall EXCEPT
                                   !.pc = "returned", !.op = "send_cmd",
                                   !.known = TRUE,
                                   !.targets = taken,
                                   !.outcomes = outcomes,
                                   !.serialises = serialises,
                                   !.reached = send_message(taken, outcomes, serialises).successes,
                                   !.result = send_message(taken, outcomes, serialises).result]
    /\ UNCHANGED <<section_vars, dkg_vars, comm, incoming, query, wire, joining>>

\* make_contact_with_nodes up to the wait for network knowledge: the
\* contacts are the bootstrap nodes, or up to three elders of a section
\* that is already known; the first batch is the slice
\* [0..NODES_TO_CONTACT_PER_STARTUP_BATCH] of them.
MakeContactWithNodes ==
    /\ client.pc = "idle"
    /\ \E sap_known \in BOOLEAN, count \in 0 .. MaxNodes,
          sap_key_is_genesis \in BOOLEAN, serialises \in BOOLEAN :
          LET contacts == IF sap_known
                          THEN Min(count, NUM_OF_ELDERS_SUBSET_FOR_QUERIES)
                          ELSE count
              genesis == ~sap_known \/ sap_key_is_genesis
              call == [NoClientCall EXCEPT !.op = "make_contact_with_nodes",
                          !.known = sap_known, !.genesis_only = ~sap_known,
                          !.contacts = contacts, !.serialises = serialises]
          IN IF contacts < NODES_TO_CONTACT_PER_STARTUP_BATCH
             THEN client' = [call EXCEPT !.pc = "panicked"]
             ELSE \E outcomes \in FanOuts(NODES_TO_CONTACT_PER_STARTUP_BATCH) :
                     LET sent == send_message(NODES_TO_CONTACT_PER_STARTUP_BATCH,
                                              outcomes, serialises)
                     IN IF sent.result # "Ok"
                        THEN client' = [call EXCEPT !.pc = "returned",
                                                    !.result = sent.result]
                        ELSE client' = [call EXCEPT
                                !.pc = IF genesis THEN "contacting" ELSE "returned",
                                !.result = IF genesis THEN "none" ELSE "Ok",
                                !.batches = <<[start |-> 0,
                                               size |-> NODES_TO_CONTACT_PER_STARTUP_BATCH]>>,
                                !.reached = sent.successes,
                                !.outgoing_msg_rounds = 1]
    /\ UNCHANGED <<section_vars, dkg_vars, comm, incoming, query, wire, joining>>

\* An AntiEntropyRetry from a node that got the message puts the
\* destination section into the Prefix Map.
AntiEntropyRetry ==
    /\ client.pc = "contacting"
    /\ ~client.known
    /\ client.reached > 0
    /\ client' = [client EXCEPT !.known = TRUE]
    /\ UNCHANGED <<section_vars, dkg_vars, comm, incoming, query, wire, joining>>

\* make_contact_with_nodes: one turn of the wait for network knowledge, and
\* the return when the section is known.
KnowledgeCheck ==
    /\ client.pc = "contacting"
    /\ IF client.known
       THEN client' = [client EXCEPT !.pc = "returned", !.result = "Ok"]
       ELSE /\ client.knowledge_checks < MaxKnowledgeChecks
            /\ IF client.knowledge_checks + 1 > 2
               THEN LET rounds_pos == client.outgoing_msg_rounds
                                        * NODES_TO_CONTACT_PER_STARTUP_BATCH
                        start_pos == IF rounds_pos > client.contacts
                                     THEN client.last_start_pos ELSE rounds_pos
                        next_batch_end == start_pos + NODES_TO_CONTACT_PER_STARTUP_BATCH
                        size == IF next_batch_end > client.contacts
                                THEN client.contacts - start_pos
                                ELSE NODES_TO_CONTACT_PER_STARTUP_BATCH
                    IN \E outcomes \in FanOuts(size) :
                          LET sent == send_message(size, outcomes, client.serialises)
                          IN client' = [client EXCEPT
                                !.knowledge_checks = @ + 1,
                                !.last_start_pos = start_pos,
                                !.outgoing_msg_rounds = @ + 1,
                                !.batches = Append(@, [start |-> start_pos, size |-> size]),
                                !.reached = @ + sent.successes,
                                !.pc = IF sent.result = "Ok" THEN "contacting" ELSE "returned",
                                !.result = IF sent.result = "Ok" THEN "none" ELSE sent.result]
               ELSE client' = [client EXCEPT !.knowledge_checks = @ + 1]
    /\ UNCHANGED <<section_vars, dkg_vars, comm, incoming, query, wire, joining>>

ClientInit ==
    /\ section = NoSection
    /\ last = NoCall
    /\ candidates = NotCalled
    /\ sessions = {}
    /\ backlog = <<>>
    /\ commands = <<>>
    /\ dkg_last = NoDkgCall
    /\ comm = [pc |-> "none"]
    /\ incoming = [pc |-> "none"]
    /\ query = [pc |-> "none"]
    /\ client = NoClientCall
    /\ wire = [pc |-> "none"]
    /\ joining = [pc |-> "none"]

ClientNext ==
    \/ SendCmd
    \/ MakeContactWithNodes
    \/ AntiEntropyRetry
    \/ KnowledgeCheck

ClientSpec == ClientInit /\ [][ClientNext]_vars /\ WF_vars(KnowledgeCheck)

\* C22: the fan-out send_message never propagates a per-peer transport
\* failure: whatever subset of the targets fails to connect or to send, the
\* failures are only counted and send_cmd, which returns what send_message
\* returned, gives Ok.
C22_FanOutFailuresNotPropagated ==
    (/\ client.op = "send_cmd"
     /\ client.pc = "returned"
     /\ client.known
     /\ client.result # "Err(InsufficientElderConnections)"
     /\ client.serialises)
    => /\ client.result = "Ok"
       /\ client.reached = Successes(client.outcomes)
       /\ client.reached <= client.targets

\* send_cmd to three elders returned Ok although two sends failed.
C22_Witness ==
    /\ client.op = "send_cmd"
    /\ client.pc = "returned"
    /\ client.targets = 3
    /\ client.outcomes = <<"connect failed", "sent", "send failed">>
    /\ client.result = "Ok"

\* A make_contact_with_nodes call by a client that knows the genesis key only.
BootstrapCall ==
    /\ client.op = "make_contact_with_nodes"
    /\ client.genesis_only

\* C23: starting with only the genesis key, make_contact_with_nodes sends
\* the initial message, in batches of at most
\* NODES_TO_CONTACT_PER_STARTUP_BATCH contacts, and returns Ok only when the
\* Prefix Map holds a section for the destination name.
C23_ContactsInBatchesUntilKnown ==
    BootstrapCall =>
       /\ client.pc # "panicked"
       /\ client.serialises => client.batches # <<>>
       /\ \A i \in 1 .. Len(client.batches) :
             client.batches[i].size <= NODES_TO_CONTACT_PER_STARTUP_BATCH
       /\ client.result = "Ok" => client.known

(***************************************************************************)
(* WireMsg (messaging/serialisation/wire_msg.rs).  Bytes are small          *)
(* numbers; the header codec (WireMsgHeader) and DstLocation are not in     *)
(* wire_msg.rs and follow the header layout: version, header_len, msg_id,   *)
(* msg_kind tag and body, dst_location tag, name and section_pk.            *)
(***************************************************************************)
MessageIds == {1, 2}
WirePks == {1, 2}
WireNames == {0, 1}
Payloads == UNION {[1 .. n -> {0, 1}] : n \in 0 .. MaxPayload}

MsgKinds ==
    {[kind |-> "SectionInfoMsg"], [kind |-> "ClientMsg"]}
    \cup [kind : {"NodeSignedMsg", "NodeBlsShareSignedMsg", "SectionSignedMsg"},
          section_pk : WirePks]

DstLocations ==
    [tag : {"Node", "Section"}, name : WireNames, section_pk : WirePks]
    \cup {[tag |-> "EndUser", user |-> 0]}

\* DstLocation::set_section_pk
DstSetSectionPk(dst_location, pk) ==
    IF dst_location.tag = "EndUser" THEN dst_location
    ELSE [dst_location EXCEPT !.section_pk = pk]

\* DstLocation::set_name
DstSetName(dst_location, name) ==
    IF dst_location.tag = "EndUser" THEN dst_location
    ELSE [dst_location EXCEPT !.name = name]

\* DstLocation::section_pk
DstSectionPk(dst_location) ==
    IF dst_location.tag = "EndUser" THEN [some |-> FALSE]
    ELSE [some |-> TRUE, pk |-> dst_location.section_pk]

\* WireMsgHeader::new
WireMsgHeaderNew(id, msg_kind, dst_location) ==
    [msg_envelope |-> [msg_id |-> id, msg_kind |-> msg_kind,
                       dst_location |-> dst_location]]

HeaderVersion == 1

KindTags ==
    [SectionInfoMsg |-> 0, ClientMsg |-> 1, NodeSignedMsg |-> 2,
     NodeBlsShareSignedMsg |-> 3, SectionSignedMsg |-> 4]

KindOfTag(tag) == CHOOSE k \in DOMAIN KindTags : KindTags[k] = tag

DstTags == [Node |-> 0, Section |-> 1, EndUser |-> 2]

DstOfTag(tag) == CHOOSE k \in DOMAIN DstTags : DstTags[k] = tag

KindBytes(msg_kind) ==
    IF msg_kind.kind \in {"SectionInfoMsg", "ClientMsg"}
    THEN <<KindTags[msg_kind.kind]>>
    ELSE <<KindTags[msg_kind.kind], msg_kind.section_pk>>

DstBytes(dst_location) ==
    IF dst_location.tag = "EndUser"
    THEN <<DstTags.EndUser, dst_location.user>>
    ELSE <<DstTags[dst_location.tag], dst_location.name, dst_location.section_pk>>

\* WireMsgHeader::write: the header bytes, header_len counting all of them.
WireMsgHeaderWrite(header) ==
    LET body == <<header.msg_envelope.msg_id>>
                \o KindBytes(header.msg_envelope.msg_kind)
                \o DstBytes(header.msg_envelope.dst_location)
    IN <<HeaderVersion, Len(body) + 2>> \o body

\* WireMsgHeader::from: the header read back, and the bytes after it.
WireMsgHeaderFrom(bytes) ==
    IF Len(bytes) < 2 \/ bytes[1] # HeaderVersion \/ bytes[2] > Len(bytes)
       \/ bytes[2] < 6
    THEN [ok |-> FALSE]
    ELSE LET kind == KindOfTag(bytes[4])
             carries_pk == kind \notin {"SectionInfoMsg", "ClientMsg"}
             at == IF carries_pk THEN 6 ELSE 5
             msg_kind == IF carries_pk
                         THEN [kind |-> kind, section_pk |-> bytes[5]]
                         ELSE [kind |-> kind]
             tag == DstOfTag(bytes[at])
             dst_location == IF tag = "EndUser"
                             THEN [tag |-> tag, user |-> bytes[at + 1]]
                             ELSE [tag |-> tag, name |-> bytes[at + 1],
                                   section_pk |-> bytes[at + 2]]
         IN [ok |-> TRUE,
             header |-> WireMsgHeaderNew(bytes[3], msg_kind, dst_location),
             payload |-> SubSeq(bytes, bytes[2] + 1, Len(bytes))]

\* WireMsg::new_msg
new_msg(id, payload, msg_kind, dst_location) ==
    [header |-> WireMsgHeaderNew(id, msg_kind, dst_location), payload |-> payload]

\* WireMsg::from
from(bytes) ==
    LET read == WireMsgHeaderFrom(bytes)
    IN IF read.ok
       THEN [ok |-> TRUE, msg |-> [header |-> read.header, payload |-> read.payload]]
       ELSE [ok |-> FALSE]

\* serialize cutting the buffer after the header.
serialize_header_only(m) ==
    LET written == WireMsgHeaderWrite(m.header)
        buffer == written \o m.payload
    IN SubSeq(buffer, 1, Len(written))

\* WireMsg::serialize: the header bytes followed by the payload bytes, the
\* buffer cut to bytes_written + payload.len().
serialize(m) ==
    LET written == WireMsgHeaderWrite(m.header)
        buffer == written \o m.payload
    IN SubSeq(buffer, 1, Len(written) + Len(m.payload))

\* WireMsg::msg_id
msg_id(m) == m.header.msg_envelope.msg_id

\* WireMsg::msg_kind
msg_kind(m) == m.header.msg_envelope.msg_kind

\* WireMsg::dst_location
dst_location(m) == m.header.msg_envelope.dst_location

\* WireMsg::dst_section_pk
dst_section_pk(m) == DstSectionPk(m.header.msg_envelope.dst_location)

\* WireMsg::src_section_pk
src_section_pk(m) ==
    IF msg_kind(m).kind \in {"NodeSignedMsg", "NodeBlsShareSignedMsg", "SectionSignedMsg"}
    THEN [some |-> TRUE, pk |-> msg_kind(m).section_pk]
    ELSE [some |-> FALSE]

\* set_dst_section_pk giving the message a fresh id.
set_dst_section_pk_new_id(m, pk) ==
    [m EXCEPT !.header.msg_envelope.dst_location = DstSetSectionPk(@, pk),
              !.header.msg_envelope.msg_id = CHOOSE i \in MessageIds : i # @]

\* WireMsg::set_dst_section_pk
set_dst_section_pk(m, pk) ==
    [m EXCEPT !.header.msg_envelope.dst_location = DstSetSectionPk(@, pk)]

\* WireMsg::set_dst_xorname
set_dst_xorname(m, name) ==
    [m EXCEPT !.header.msg_envelope.dst_location = DstSetName(@, name)]

WireMsgs ==
    {new_msg(id, payload, kind, dst) :
        id \in MessageIds, payload \in Payloads, kind \in MsgKinds, dst \in DstLocations}

(***************************************************************************)
(* WireSpec: a WireMsg is built, its destination is updated for re-sends,   *)
(* it is serialised, and the bytes are read back.                           *)
(***************************************************************************)
NoBytes == [ok |-> FALSE]

\* A re-send towards another section key.
SetDstSectionPk ==
    /\ wire.pc # "none"
    /\ \E pk \in WirePks :
          wire' = [wire EXCEPT !.pc = "built",
                               !.msg = set_dst_section_pk(wire.msg, pk),
                               !.resent = TRUE,
                               !.bytes = <<>>, !.read = NoBytes]
    /\ UNCHANGED <<section_vars, dkg_vars, comm, incoming, query, client, joining>>

\* A re-send towards another name.
SetDstXorname ==
    /\ wire.pc # "none"
    /\ \E name \in WireNames :
          wire' = [wire EXCEPT !.pc = "built",
                               !.msg = set_dst_xorname(wire.msg, name),
                               !.resent = TRUE,
                               !.bytes = <<>>, !.read = NoBytes]
    /\ UNCHANGED <<section_vars, dkg_vars, comm, incoming, query, client, joining>>

Serialize ==
    /\ wire.pc = "built"
    /\ wire' = [wire EXCEPT !.pc = "serialized", !.bytes = serialize(wire.msg)]
    /\ UNCHANGED <<section_vars, dkg_vars, comm, incoming, query, client, joining>>

From ==
    /\ wire.pc = "serialized"
    /\ wire' = [wire EXCEPT !.pc = "read", !.read = from(wire.bytes)]
    /\ UNCHANGED <<section_vars, dkg_vars, comm, incoming, query, client, joining>>

WireInit ==
    /\ section = NoSection
    /\ last = NoCall
    /\ candidates = NotCalled
    /\ sessions = {}
    /\ backlog = <<>>
    /\ commands = <<>>
    /\ dkg_last = NoDkgCall
    /\ comm = [pc |-> "none"]
    /\ incoming = [pc |-> "none"]
    /\ query = [pc |-> "none"]
    /\ client = [pc |-> "none"]
    /\ joining = [pc |-> "none"]
    /\ \E m \in WireMsgs :
          wire = [pc |-> "built", original |-> m, msg |-> m, resent |-> FALSE,
                  bytes |-> <<>>, read |-> NoBytes]

WireNext ==
    \/ SetDstSectionPk
    \/ SetDstXorname
    \/ Serialize
    \/ From

WireSpec == WireInit /\ [][WireNext]_vars

\* C24: a re-send keeps the msg_id: set_dst_section_pk and set_dst_xorname
\* change the destination in the header only; msg_id, msg_kind and payload
\* stay those of the original message, also in the bytes sent again.
C24_ResendKeepsMsgId ==
    /\ msg_id(wire.msg) = msg_id(wire.original)
    /\ msg_kind(wire.msg) = msg_kind(wire.original)
    /\ wire.msg.payload = wire.original.payload
    /\ wire.pc = "read" =>
          /\ wire.read.ok
          /\ msg_id(wire.read.msg) = msg_id(wire.original)

\* A message whose destination name and section key were both changed was
\* serialised again and read back.
C24_Witness ==
    /\ wire.pc = "read"
    /\ wire.resent
    /\ dst_location(wire.original).tag = "Section"
    /\ dst_location(wire.msg).name # dst_location(wire.original).name
    /\ dst_location(wire.msg).section_pk # dst_location(wire.original).section_pk
    /\ msg_id(wire.read.msg) = msg_id(wire.original)

\* C25: parse(serialize(m)) = m: for every WireMsg m, of any msg_kind and
\* dst_location, WireMsg::from of the serialised bytes gives back m, with
\* the same msg_id, dst_location, dst_section_pk, src_section_pk and payload.
C25_FromSerializeRoundTrip ==
    wire.pc = "read" =>
       /\ wire.bytes = serialize(wire.msg)
       /\ wire.read.ok
       /\ wire.read.msg = wire.msg
       /\ msg_id(wire.read.msg) = msg_id(wire.msg)
       /\ dst_location(wire.read.msg) = dst_location(wire.msg)
       /\ dst_section_pk(wire.read.msg) = dst_section_pk(wire.msg)
       /\ src_section_pk(wire.read.msg) = src_section_pk(wire.msg)
       /\ wire.read.msg.payload = wire.msg.payload

\* A node-signed message to a node, with a payload of two bytes, was read
\* back from its bytes.
C25_Witness ==
    /\ wire.pc = "read"
    /\ wire.read.ok
    /\ msg_kind(wire.msg).kind = "NodeSignedMsg"
    /\ dst_location(wire.msg).tag = "Node"
    /\ Len(wire.msg.payload) = 2
    /\ src_section_pk(wire.read.msg).some
    /\ wire.read.msg = wire.msg

(***************************************************************************)
(* Further properties of the Section.                                       *)
(***************************************************************************)
\* The step is a call of the Section operation `op`.
SectionCall(op) == last'.op = op /\ last'.calls = last.calls + 1

\* C26: when update_elders returns false (wrong prefix, a SAP that does not
\* self-verify, or a key that cannot be inserted into the chain), the
\* section's chain, current SAP and members are unchanged.
C26_RejectedUpdateChangesNothing ==
    [][(SectionCall("update_elders") /\ ~last'.ret) =>
          /\ section'.chain = section.chain
          /\ section'.section_auth = section.section_auth
          /\ section'.members = section.members]_vars

\* update_elders was refused on a section that has members and a chain of
\* more than one key.
C26_Witness ==
    /\ section.built
    /\ last.op = "update_elders"
    /\ ~last.ret
    /\ section.members # NoMembers
    /\ Cardinality(ChainKeys(section.chain)) > 1

\* Every block of chain a is a block of chain b, under the same parent.
ChainWithin(a, b) ==
    /\ a.root = b.root
    /\ DOMAIN a.parent \subseteq DOMAIN b.parent
    /\ \A k \in DOMAIN a.parent : b.parent[k] = a.parent[k]

\* C27: the section chain is append-only and rooted at the genesis key:
\* whatever update_elders and merge_chain calls are made, and whether they
\* succeed or fail, no key of the chain is removed and the root key of the
\* chain is the section's genesis_key.
C27_ChainAppendOnlyRootedAtGenesis ==
    /\ [](section.built => RootKey(section.chain) = section.genesis_key)
    /\ [][section.built => ChainWithin(section.chain, section'.chain)]_vars

\* After an update_elders call and a successful merge_chain call the chain
\* holds a key besides the genesis key, which is its root.
C27_Witness ==
    /\ section.built
    /\ last.calls = MaxCalls
    /\ last.op = "merge_chain"
    /\ last.ret
    /\ ChainKeys(section.chain) = Keys
    /\ RootKey(section.chain) = section.genesis_key

(***************************************************************************)
(* The Joining stage (node/stage/joining.rs).  `joining` holds the stage    *)
(* (elders_info, timer_token), the node's timer (the next token and the     *)
(* tokens scheduled and not yet fired) and the JoinRequests sent.  The      *)
(* timer itself is not in joining.rs: schedule returns a token never        *)
(* returned before, and each scheduled token fires once.                    *)
(***************************************************************************)
JoinElders == {1, 2}
JoinVersions == {0, 1, 2}

EldersInfos ==
    [elders : (SUBSET JoinElders) \ {{}}, version : JoinVersions,
     prefix_matches : BOOLEAN]

\* Timer::schedule(JOIN_TIMEOUT): a fresh token
TimerSchedule(j) ==
    [j EXCEPT !.next_token = @ + 1,
              !.scheduled = @ \cup {j.next_token},
              !.join_timers = @ \cup {j.next_token}]

\* Joining::send_join_requests: a JoinRequest with the version of
\* elders_info to every elder of it.
send_join_requests(j) ==
    [j EXCEPT !.rounds = @ + 1,
              !.last_sent = [to |-> j.elders_info.elders,
                             elders_version |-> j.elders_info.version]]

\* handle_timeout re-sending without scheduling a new timer.
handle_timeout_once(j, token) ==
    IF token = j.timer_token
    THEN send_join_requests(j)
    ELSE j

\* Joining::handle_timeout
handle_timeout(j, token) ==
    IF token = j.timer_token
    THEN LET sent == send_join_requests(j)
         IN [TimerSchedule(sent) EXCEPT !.timer_token = sent.next_token]
    ELSE j

\* handle_bootstrap_response taking an EldersInfo of the version it has.
handle_bootstrap_response_same_version(j, new_elders_info, panics) ==
    IF new_elders_info.version < j.elders_info.version THEN j
    ELSE IF new_elders_info.prefix_matches
    THEN send_join_requests([j EXCEPT !.elders_info = new_elders_info])
    ELSE IF panics THEN [j EXCEPT !.pc = "panicked"]
    ELSE j

\* Joining::handle_bootstrap_response; a newer EldersInfo for another
\* prefix is logged, or panics where log_or_panic panics.
handle_bootstrap_response(j, new_elders_info, panics) ==
    IF new_elders_info.version <= j.elders_info.version THEN j
    ELSE IF new_elders_info.prefix_matches
    THEN send_join_requests([j EXCEPT !.elders_info = new_elders_info])
    ELSE IF panics THEN [j EXCEPT !.pc = "panicked"]
    ELSE j

\* Joining::new, on a node whose timer has given out one token before.
JoiningNew(elders_info) ==
    LET core == [pc |-> "joining", elders_info |-> elders_info,
                 timer_token |-> 1, next_token |-> 1, scheduled |-> {0},
                 join_timers |-> {}, rounds |-> 0,
                 last_sent |-> [to |-> {}, elders_version |-> 0],
                 last |-> [op |-> "new", token |-> 1]]
    IN send_join_requests(TimerSchedule(core))

\* A scheduled timer fires and the stage is told.
HandleTimeout ==
    /\ joining.pc = "joining"
    /\ \E token \in joining.scheduled :
          /\ token = joining.timer_token => joining.next_token < MaxTimerTokens
          /\ LET fired == [joining EXCEPT !.scheduled = @ \ {token},
                                          !.join_timers = @ \ {token}]
             IN joining' = [handle_timeout(fired, token) EXCEPT
                               !.last = [op |-> "handle_timeout", token |-> token]]
    /\ UNCHANGED <<section_vars, dkg_vars, comm, incoming, query, client, wire>>

\* Another part of the node schedules a timer of its own.
OtherTimerScheduled ==
    /\ joining.pc = "joining"
    /\ joining.next_token < MaxTimerTokens
    /\ joining' = [joining EXCEPT !.next_token = @ + 1,
                                  !.scheduled = @ \cup {joining.next_token},
                                  !.last = [op |-> "schedule", token |-> joining.next_token]]
    /\ UNCHANGED <<section_vars, dkg_vars, comm, incoming, query, client, wire>>

HandleBootstrapResponse ==
    /\ joining.pc = "joining"
    /\ \E new_elders_info \in EldersInfos, panics \in BOOLEAN :
          joining' = [handle_bootstrap_response(joining, new_elders_info, panics) EXCEPT
                         !.last = [op |-> "handle_bootstrap_response",
                                   token |-> joining.timer_token,
                                   arg |-> new_elders_info]]
    /\ UNCHANGED <<section_vars, dkg_vars, comm, incoming, query, client, wire>>

JoinInit ==
    /\ section = NoSection
    /\ last = NoCall
    /\ candidates = NotCalled
    /\ sessions = {}
    /\ backlog = <<>>
    /\ commands = <<>>
    /\ dkg_last = NoDkgCall
    /\ comm = [pc |-> "none"]
    /\ incoming = [pc |-> "none"]
    /\ query = [pc |-> "none"]
    /\ client = [pc |-> "none"]
    /\ wire = [pc |-> "none"]
    /\ \E elders_info \in {e \in EldersInfos : e.prefix_matches} :
          joining = JoiningNew(elders_info)

JoinNext ==
    \/ HandleTimeout
    \/ OtherTimerScheduled
    \/ HandleBootstrapResponse

JoinSpec == JoinInit /\ [][JoinNext]_vars

\* The stage is told of the timeout `token` in this step.
TimeoutHandled(token) ==
    /\ joining'.last = [op |-> "handle_timeout", token |-> token]
    /\ token \in joining.scheduled
    /\ token \notin joining'.scheduled

\* C28: when the timer fires with the current timer token, a JoinRequest is
\* sent again to every elder of the target section and a new timer is
\* scheduled whose token becomes the current one; a timeout with any other
\* token changes nothing; and exactly one join timer is current at any time.
C28_JoinRetriedOnTimeout ==
    /\ [](joining.pc = "joining" =>
            joining.join_timers = {joining.timer_token})
    /\ [][\A token \in joining.scheduled :
            TimeoutHandled(token) =>
               IF token = joining.timer_token
               THEN /\ joining'.rounds = joining.rounds + 1
                    /\ joining'.last_sent.to = joining.elders_info.elders
                    /\ joining'.timer_token # joining.timer_token
                    /\ joining'.timer_token \in joining'.scheduled \ joining.scheduled
               ELSE /\ joining'.rounds = joining.rounds
                    /\ joining'.timer_token = joining.timer_token
                    /\ joining'.elders_info = joining.elders_info
                    /\ joining'.join_timers = joining.join_timers]_vars

\* The join timer has expired twice and the join was sent a third time, and
\* a timer of another part of the node has fired in between.
C28_Witness ==
    /\ joining.pc = "joining"
    /\ joining.last.op = "handle_timeout"
    /\ joining.rounds >= 3
    /\ joining.timer_token = 3
    /\ 0 \notin joining.scheduled

(***************************************************************************)
(* RaceSpec: one start call and process_message calls for the same session  *)
(* identifier running concurrently on the DkgVoter.  A call is split where  *)
(* it takes one of the voter's locks: the session map (a DashMap) and the   *)
(* backlog (a RwLock, held by start over the whole replay loop).  dkg_last  *)
(* holds the calls in progress: where start is, the session it is building, *)
(* the messages given to process_message in the order given, and those      *)
(* whose call has found no session and has yet to push.                     *)
(***************************************************************************)
RaceCandidates == 1 .. 3

\* start up to the replay: contains_key, position, KeyGen::initialize and
\* the broadcast of the first message.
RaceStartBegin ==
    /\ dkg_last.start = "idle"
    /\ ~session_in_progress(Voter, dkg_last.dkg_key)
    /\ LET position == Position(RaceCandidates, NodeName)
           initialized == KeyGenInitialize(NodeName, dkg_threshold(RaceCandidates),
                                           RaceCandidates)
           session == [key_gen |-> initialized.key_gen,
                       elder_candidates |-> RaceCandidates,
                       participant_index |-> position.index,
                       timer_token |-> 0,
                       failures |-> {},
                       complete |-> FALSE]
           broadcast == SessionBroadcast(session, dkg_last.dkg_key, initialized.message)
       IN /\ dkg_last' = [dkg_last EXCEPT !.start = "take",
                                          !.session = broadcast.session]
          /\ commands' = broadcast.commands
    /\ UNCHANGED <<section_vars, sessions, backlog, net_vars>>

\* start: the loop over backlog.take(&dkg_key), under the backlog's lock.
RaceStartTake ==
    /\ dkg_last.start = "take"
    /\ LET taken == BacklogTake(backlog, dkg_last.dkg_key)
           replayed == SessionReplay(dkg_last.session, taken.messages)
       IN /\ backlog' = taken.rest
          /\ dkg_last' = [dkg_last EXCEPT !.start = "insert",
                                          !.session = replayed.session]
          /\ commands' = commands \o replayed.commands
    /\ UNCHANGED <<section_vars, sessions, net_vars>>

\* start: sessions.insert and sessions.retain.
RaceStartInsert ==
    /\ dkg_last.start = "insert"
    /\ sessions' = {e \in SessionsInsert(sessions, dkg_last.dkg_key, dkg_last.session) :
                       e.dkg_key.generation >= dkg_last.dkg_key.generation}
    /\ dkg_last' = [dkg_last EXCEPT !.start = "prune"]
    /\ UNCHANGED <<section_vars, backlog, commands, net_vars>>

\* start: backlog.prune and the return.
RaceStartPrune ==
    /\ dkg_last.start = "prune"
    /\ backlog' = BacklogPrune(backlog, dkg_last.dkg_key)
    /\ dkg_last' = [dkg_last EXCEPT !.start = "done"]
    /\ UNCHANGED <<section_vars, sessions, commands, net_vars>>

\* process_message: sessions.get_mut; the session handles the message, or
\* the call goes on to the backlog.
RaceProcessBegin ==
    /\ \E message \in DkgMessages :
          /\ \A i \in 1 .. Len(dkg_last.given) : dkg_last.given[i] # message
          /\ IF dkg_last.dkg_key \in SessionKeys(sessions)
             THEN /\ sessions' = process_message(Voter, dkg_last.dkg_key, message).sessions
                  /\ dkg_last' = [dkg_last EXCEPT !.given = Append(@, message)]
             ELSE /\ sessions' = sessions
                  /\ dkg_last' = [dkg_last EXCEPT !.given = Append(@, message),
                                                  !.pushing = @ \cup {message}]
    /\ UNCHANGED <<section_vars, backlog, commands, net_vars>>

\* process_message: backlog.write().await.push
RaceProcessPush ==
    /\ \E message \in dkg_last.pushing :
          /\ backlog' = BacklogPush(backlog, dkg_last.dkg_key, message)
          /\ dkg_last' = [dkg_last EXCEPT !.pushing = @ \ {message}]
    /\ UNCHANGED <<section_vars, sessions, commands, net_vars>>

RaceInit ==
    /\ section = NoSection
    /\ last = NoCall
    /\ candidates = NotCalled
    /\ sessions = {}
    /\ backlog = <<>>
    /\ commands = <<>>
    /\ \E dkg_key \in DkgSessionIds :
          dkg_last = [op |-> "race", dkg_key |-> dkg_key, start |-> "idle",
                      session |-> [none |-> TRUE], given |-> <<>>, pushing |-> {}]
    /\ NetIdle

RaceNext ==
    \/ RaceStartBegin
    \/ RaceStartTake
    \/ RaceStartInsert
    \/ RaceStartPrune
    \/ RaceProcessBegin
    \/ RaceProcessPush

RaceSpec == RaceInit /\ [][RaceNext]_vars

\* C29: whatever the interleaving of start and process_message for one
\* session identifier, no DKG message is lost: once the session is in the
\* session map none of its messages is left in the backlog, and when no
\* call is in progress the session has handled every message given to
\* process_message, in the order given.
C29_NoMessageLostUnderInterleaving ==
    dkg_last.dkg_key \in SessionKeys(sessions) =>
       /\ Buffered(backlog, dkg_last.dkg_key) = <<>>
       /\ (dkg_last.start = "done" /\ dkg_last.pushing = {}) =>
             SessionOf(sessions, dkg_last.dkg_key).key_gen.handled
                = <<"Initialization">> \o dkg_last.given

(***************************************************************************)
(* The shape of a proposed split.                                          *)
(***************************************************************************)
\* The prefixes of the ElderCandidates returned, in the order of the Vec.
ReturnedPrefixes == [i \in 1 .. Len(candidates.result) |-> candidates.result[i].prefix]

\* The call proposes a split: both halves are large enough, or one of the
\* ElderCandidates returned is for a prefix other than the section's.
ProposesSplit ==
    /\ candidates.called
    /\ \/ /\ Len(CurrentSAP.prefix) < NameBits
          /\ HalfSize(TRUE) >= RECOMMENDED_SECTION_SIZE
          /\ HalfSize(FALSE) >= RECOMMENDED_SECTION_SIZE
       \/ \E i \in DOMAIN ReturnedPrefixes : ReturnedPrefixes[i] # CurrentSAP.prefix

\* C30: when promote_and_demote_elders proposes a split of a section with
\* prefix p, it returns exactly two ElderCandidates, the first for the child
\* of p that matches our_name and the second for the other child of p, and
\* none for p itself.
C30_SplitReturnsOursThenSibling ==
    ProposesSplit =>
        LET p == CurrentSAP.prefix
            our_bit == Bit(candidates.our_name, Len(p))
        IN /\ Len(candidates.result) = 2
           /\ ReturnedPrefixes[1] = p \o <<our_bit>>
           /\ ReturnedPrefixes[2] = p \o <<1 - our_bit>>
           /\ Matches(ReturnedPrefixes[1], candidates.our_name)
           /\ ~Matches(ReturnedPrefixes[2], candidates.our_name)
           /\ \A i \in DOMAIN ReturnedPrefixes : ReturnedPrefixes[i] # p

\* A split of a section with a prefix of one bit, proposed for the highest
\* name of the section: the first child ends in 1 and the second in 0.
C30_Witness ==
    /\ ProposesSplit
    /\ CurrentSAP.prefix = <<1>>
    /\ Bit(candidates.our_name, 1) = 1
    /\ ReturnedPrefixes = <<(<<1, 1>>), (<<1, 0>>)>>
    /\ candidates.result[1].elders # candidates.result[2].elders

(***************************************************************************)
(* The size of the delivery group.                                         *)
(***************************************************************************)
\* The first delivery_group_size recipients, all of them when there are fewer.
FirstGroup == Elements(SubSeq(comm.recipients, 1, comm.group))

\* C31: send_message_to_targets never has more than delivery_group_size
\* successful sends, the sends in flight counted as if they succeeded; and
\* when the sends to the first delivery_group_size recipients all succeed, no
\* other recipient is tried.
C31_AtMostGroupSizeDelivered ==
    InCall =>
        /\ Cardinality(Succeeded) <= comm.delivery_group_size
        /\ Cardinality(Succeeded) + Cardinality(comm.tasks) <= comm.delivery_group_size
        /\ FirstGroup \subseteq Succeeded => Elements(comm.launched) = FirstGroup

\* The call has returned after two successful sends to the first two of three
\* reachable recipients.
C31_Witness ==
    /\ comm.pc = "done"
    /\ comm.delivery_group_size = 2
    /\ Len(comm.recipients) = 3
    /\ comm.reachable = Elements(comm.recipients)
    /\ Succeeded = FirstGroup
    /\ Len(comm.launched) = 2

(***************************************************************************)
(* The events of one connection.                                           *)
(***************************************************************************)
\* The events next() has returned for connection c are the Received events
\* of its first messages in their order, then at most one Disconnected, which
\* comes only once the peer has closed the connection and every message the
\* task took from it has been returned.
EventsInOrder(c) ==
    LET events == incoming.delivered[c]
        received == {i \in 1 .. Len(events) : events[i].kind = "Received"}
        count == Cardinality(received)
    IN /\ \A i \in 1 .. Len(events) : events[i].src = c
       /\ \A i \in 1 .. count : events[i] = Received(c, i)
       /\ count <= incoming.tasks[c].pumped
       /\ Len(events) <= count + 1
       /\ Len(events) = count + 1 =>
             /\ events[count + 1] = Disconnected(c)
             /\ c \in incoming.ended
             /\ incoming.tasks[c].state = "finished"
             /\ count = incoming.tasks[c].pumped

HasDisconnected(c) ==
    /\ incoming.pc # "none"
    /\ incoming.delivered[c] # <<>>
    /\ incoming.delivered[c][Len(incoming.delivered[c])] = Disconnected(c)

\* C32: for every incoming connection the stream returns the Received events
\* of the connection's messages in the order received; after the connection
\* has ended it returns, while it is held, one Disconnected event with the
\* peer's address, after all the Received events of the connection and never
\* a second one.
C32_ReceivedInOrderThenDisconnected ==
    /\ [](incoming.pc # "none" => \A c \in Conns : EventsInOrder(c))
    /\ \A c \in Conns :
          (incoming.pc = "open" /\ c \in incoming.ended)
              ~> (HasDisconnected(c) \/ incoming.pc = "dropped")

\* Both messages of the first connection and then its Disconnected have been
\* returned, with an event of the second connection returned as well.
C32_Witness ==
    /\ incoming.pc = "open"
    /\ incoming.delivered[1] = <<Received(1, 1), Received(1, 2), Disconnected(1)>>
    /\ incoming.delivered[2] # <<>>

(***************************************************************************)
(* The target section of the Joining stage.                                *)
(***************************************************************************)
\* handle_bootstrap_response is called in this step.
BootstrapResponseHandled ==
    /\ joining.pc = "joining"
    /\ joining'.last.op = "handle_bootstrap_response"
    /\ joining' # joining

\* C33: the target elders info of the Joining stage is replaced only by
\* handle_bootstrap_response, given a response of a strictly higher version
\* whose prefix matches the node's name, and JoinRequests with the new version
\* are then sent to the elders of the response; a response of a version lower
\* than or equal to the current one changes the stage in nothing and sends
\* nothing; the version of the target never decreases.
C33_TargetReplacedOnlyByNewerMatching ==
    [][joining.pc = "joining" =>
         /\ joining'.elders_info.version >= joining.elders_info.version
         /\ joining'.elders_info # joining.elders_info =>
               /\ BootstrapResponseHandled
               /\ joining'.last.arg.version > joining.elders_info.version
               /\ joining'.last.arg.prefix_matches
               /\ joining'.elders_info = joining'.last.arg
               /\ joining'.rounds = joining.rounds + 1
               /\ joining'.last_sent = [to |-> joining'.last.arg.elders,
                                        elders_version |-> joining'.last.arg.version]
         /\ (/\ BootstrapResponseHandled
             /\ joining'.last.arg.version <= joining.elders_info.version) =>
               [joining' EXCEPT !.last = joining.last] = joining
         /\ (/\ BootstrapResponseHandled
             /\ joining'.last.arg.version > joining.elders_info.version
             /\ joining'.last.arg.prefix_matches) =>
               joining'.elders_info = joining'.last.arg]_vars

\* The target has been replaced twice, the last time by a response of
\* version 2 with other elders, to whom the JoinRequests went.
C33_Witness ==
    /\ joining.pc = "joining"
    /\ joining.last.op = "handle_bootstrap_response"
    /\ joining.elders_info = joining.last.arg
    /\ joining.elders_info.version = 2
    /\ joining.rounds = 3
    /\ joining.last_sent = [to |-> joining.elders_info.elders, elders_version |-> 2]

(***************************************************************************)
(* StartRaceSpec: two start calls for the same session identifier running  *)
(* concurrently on the DkgVoter, each split where it reads or writes the   *)
(* session map or takes the backlog's lock.  dkg_last holds the two calls: *)
(* where each is and the session it is building, how many sessions were    *)
(* initialised, how many first messages were broadcast, and whether an     *)
(* insert has replaced a session the map held.                             *)
(***************************************************************************)
StartCallers == {1, 2}

\* start: self.sessions.contains_key(&dkg_key) and the early return.
RaceStartCheck(i) ==
    /\ dkg_last.op = "starts"
    /\ dkg_last.calls[i].pc = "idle"
    /\ dkg_last' = [dkg_last EXCEPT !.calls[i].pc =
                        IF session_in_progress(Voter, dkg_last.dkg_key)
                        THEN "done" ELSE "initialize"]
    /\ UNCHANGED <<section_vars, sessions, backlog, commands, net_vars>>

\* start: position, KeyGen::initialize, the Session and the broadcast of its
\* first message.
RaceStartInitialize(i) ==
    /\ dkg_last.op = "starts"
    /\ dkg_last.calls[i].pc = "initialize"
    /\ LET elder_candidates == dkg_last.elder_candidates
           position == Position(elder_candidates, NodeName)
           initialized == KeyGenInitialize(NodeName, dkg_threshold(elder_candidates),
                                           elder_candidates)
           session == [key_gen |-> initialized.key_gen,
                       elder_candidates |-> elder_candidates,
                       participant_index |-> position.index,
                       timer_token |-> 0,
                       failures |-> {},
                       complete |-> FALSE]
           broadcast == SessionBroadcast(session, dkg_last.dkg_key, initialized.message)
       IN /\ dkg_last' = [dkg_last EXCEPT
                 !.calls[i] = [pc |-> "take", session |-> broadcast.session,
                               commands |-> broadcast.commands],
                 !.initialised = @ + 1,
                 !.broadcasts = @ + Len(broadcast.commands)]
          /\ commands' = commands \o broadcast.commands
    /\ UNCHANGED <<section_vars, sessions, backlog, net_vars>>

\* start: the loop over backlog.take(&dkg_key).
RaceStartReplay(i) ==
    /\ dkg_last.op = "starts"
    /\ dkg_last.calls[i].pc = "take"
    /\ LET taken == BacklogTake(backlog, dkg_last.dkg_key)
           replayed == SessionReplay(dkg_last.calls[i].session, taken.messages)
       IN /\ backlog' = taken.rest
          /\ dkg_last' = [dkg_last EXCEPT
                 !.calls[i].pc = "insert",
                 !.calls[i].session = replayed.session,
                 !.calls[i].commands = @ \o replayed.commands]
    /\ UNCHANGED <<section_vars, sessions, commands, net_vars>>

\* start: sessions.insert, sessions.retain, backlog.prune and the return.
RaceStartStore(i) ==
    /\ dkg_last.op = "starts"
    /\ dkg_last.calls[i].pc = "insert"
    /\ sessions' = {e \in SessionsInsert(sessions, dkg_last.dkg_key,
                                         dkg_last.calls[i].session) :
                       e.dkg_key.generation >= dkg_last.dkg_key.generation}
    /\ backlog' = BacklogPrune(backlog, dkg_last.dkg_key)
    /\ dkg_last' = [dkg_last EXCEPT
           !.calls[i].pc = "done",
           !.replaced = @ \/ dkg_last.dkg_key \in SessionKeys(sessions)]
    /\ UNCHANGED <<section_vars, commands, net_vars>>

\* The voter holds nothing, or one message that came before any session.
StartRaceInit ==
    /\ section = NoSection
    /\ last = NoCall
    /\ candidates = NotCalled
    /\ sessions = {}
    /\ commands = <<>>
    /\ \E dkg_key \in DkgSessionIds, elder_candidates \in CandidateSets,
          buffered \in {<<>>} \cup {<<message>> : message \in DkgMessages} :
          /\ NodeName \in elder_candidates
          /\ Cardinality(elder_candidates) \in {2, 3}
          /\ backlog = [k \in 1 .. Len(buffered) |-> <<dkg_key, buffered[k]>>]
          /\ dkg_last = [op |-> "starts", dkg_key |-> dkg_key,
                         elder_candidates |-> elder_candidates,
                         calls |-> [i \in StartCallers |->
                                      [pc |-> "idle", session |-> [none |-> TRUE],
                                       commands |-> <<>>]],
                         initialised |-> 0, broadcasts |-> 0, replaced |-> FALSE]
    /\ NetIdle

StartRaceNext ==
    \/ \E i \in StartCallers : RaceStartCheck(i)
    \/ \E i \in StartCallers : RaceStartInitialize(i)
    \/ \E i \in StartCallers : RaceStartReplay(i)
    \/ \E i \in StartCallers : RaceStartStore(i)

StartRaceSpec == StartRaceInit /\ [][StartRaceNext]_vars

\* C34: when two start calls for one session identifier run concurrently, at
\* most one session is initialised for it, its first DKG message is broadcast
\* at most once, and no insert replaces a session the session map holds.
C34_AtMostOneSessionInitialised ==
    dkg_last.op = "starts" =>
        /\ dkg_last.initialised <= 1
        /\ dkg_last.broadcasts <= 1
        /\ ~dkg_last.replaced

(***************************************************************************)
(* start called again for the same session identifier.                     *)
(***************************************************************************)
\* The commands that are a DKG output of start: the broadcast of the first
\* message of a key generation, or a HandleDkgOutcome.
DkgOutputs(cmds) ==
    {i \in 1 .. Len(cmds) :
        \/ cmds[i].kind = "HandleDkgOutcome"
        \/ cmds[i].kind = "SendDkgMessage" /\ cmds[i].message = "Initialization"}

\* This step is a start call that follows a start call of the same session
\* identifier and the same elder candidates, which returned a DKG output.
StartRepeated ==
    /\ dkg_last.op = "start"
    /\ dkg_last'.op = "start"
    /\ dkg_last'.calls = dkg_last.calls + 1
    /\ dkg_last'.arg = dkg_last.arg
    /\ DkgOutputs(commands) # {}

\* C35: a start call that follows a start call of the same session
\* identifier which gave a DKG output gives none: neither the broadcast of a
\* first message nor a HandleDkgOutcome, whatever the number of candidates,
\* one included.
C35_SecondStartGivesNoOutput ==
    [][StartRepeated => DkgOutputs(commands') = {}]_vars

(***************************************************************************)
(* start that cannot begin a key generation.                               *)
(***************************************************************************)
\* This step is a start call of a node that is not one of the elder
\* candidates, or whose KeyGen::initialize fails.
StartCannotBegin ==
    /\ dkg_last'.op = "start"
    /\ dkg_last'.calls = dkg_last.calls + 1
    /\ \/ NodeName \notin dkg_last'.arg.elder_candidates
       \/ dkg_last'.arg.failure = "initialize"

\* C36: a start call of a node that is not among the elder candidates, or
\* whose key-generation initialisation fails, returns Ok with no commands,
\* and the session map and the backlog are after it what they were before:
\* no session made, none removed, no message taken or dropped.
C36_FailedStartChangesNothing ==
    [][StartCannotBegin =>
          /\ dkg_last'.ok
          /\ commands' = <<>>
          /\ sessions' = sessions
          /\ backlog' = backlog]_vars

\* KeyGen::initialize has failed in a start call of a candidate for an
\* identifier of a newer generation than the session and the message the
\* voter holds, and both are still there.
C36_Witness ==
    /\ dkg_last.op = "start"
    /\ dkg_last.arg.failure = "initialize"
    /\ NodeName \in dkg_last.arg.elder_candidates
    /\ ~dkg_last.existed
    /\ dkg_last.ok /\ commands = <<>>
    /\ \E e \in sessions : e.dkg_key.generation < dkg_last.arg.dkg_key.generation
    /\ \E k \in 1 .. Len(backlog) :
          backlog[k][1].generation < dkg_last.arg.dkg_key.generation

(***************************************************************************)
(* SendRaceSpec: two Comm::send_to calls to one recipient running          *)
(* concurrently, each split where it takes the lock of node_conns or       *)
(* awaits the network.  Connections are numbered in the order they are     *)
(* made, 0 standing for none; `comm` holds the connection node_conns has   *)
(* for the recipient, the connections the peer has dropped, where each     *)
(* call is and the connection it holds, and what the last remove did.      *)
(***************************************************************************)
SendCallers == {1, 2}

NoRemove == [some |-> FALSE]

\* send_to: node_conns.lock().await.get(recipient).cloned()
SendToGet(i) ==
    /\ comm.pc = "race"
    /\ comm.calls[i].pc = "idle"
    /\ comm' = [comm EXCEPT
           !.calls[i] = [pc |-> IF comm.node_conns = 0
                                THEN "connect" ELSE "send_cached",
                         conn |-> comm.node_conns, ok |-> FALSE]]
    /\ UNCHANGED <<section_vars, dkg_vars, incoming, query, more_vars>>

\* send_to: conn.send_uni on the cached connection, and the return if it
\* succeeds.
SendToCached(i) ==
    /\ comm.pc = "race"
    /\ comm.calls[i].pc = "send_cached"
    /\ comm' = [comm EXCEPT
           !.calls[i].pc = IF comm.calls[i].conn \in comm.dropped
                           THEN "remove" ELSE "done",
           !.calls[i].ok = comm.calls[i].conn \notin comm.dropped]
    /\ UNCHANGED <<section_vars, dkg_vars, incoming, query, more_vars>>

\* send_to: node_conns.lock().await.remove(recipient)
SendToRemove(i) ==
    /\ comm.pc = "race"
    /\ comm.calls[i].pc = "remove"
    /\ comm' = [comm EXCEPT
           !.node_conns = 0,
           !.calls[i].pc = "connect",
           !.last_remove = [some |-> TRUE, failed |-> comm.calls[i].conn,
                            removed |-> comm.node_conns]]
    /\ UNCHANGED <<section_vars, dkg_vars, incoming, query, more_vars>>

\* send_to: endpoint.connect_to(recipient) and conn.send_uni(msg), either of
\* which can fail.
SendToConnect(i) ==
    /\ comm.pc = "race"
    /\ comm.calls[i].pc = "connect"
    /\ \E ok \in BOOLEAN :
          comm' = [comm EXCEPT
              !.calls[i] = [pc |-> IF ok THEN "insert" ELSE "done",
                            conn |-> IF ok THEN comm.made + 1 ELSE 0,
                            ok |-> ok],
              !.made = IF ok THEN @ + 1 ELSE @]
    /\ UNCHANGED <<section_vars, dkg_vars, incoming, query, more_vars>>

\* send_to: node_conns.lock().await.insert(*recipient, Arc::new(conn))
SendToInsert(i) ==
    /\ comm.pc = "race"
    /\ comm.calls[i].pc = "insert"
    /\ comm' = [comm EXCEPT !.node_conns = comm.calls[i].conn,
                            !.calls[i].pc = "done"]
    /\ UNCHANGED <<section_vars, dkg_vars, incoming, query, more_vars>>

\* The peer drops a connection.
PeerDropsConnection ==
    /\ comm.pc = "race"
    /\ \E conn \in (1 .. comm.made) \ comm.dropped :
          comm' = [comm EXCEPT !.dropped = @ \cup {conn}]
    /\ UNCHANGED <<section_vars, dkg_vars, incoming, query, more_vars>>

\* Comm::new, or a Comm whose cache holds one connection to the recipient.
SendRaceInit ==
    /\ section = NoSection
    /\ last = NoCall
    /\ candidates = NotCalled
    /\ sessions = {}
    /\ backlog = <<>>
    /\ commands = <<>>
    /\ dkg_last = NoDkgCall
    /\ \E made \in {0, 1} :
          comm = [pc |-> "race", node_conns |-> made, made |-> made, dropped |-> {},
                  calls |-> [i \in SendCallers |->
                               [pc |-> "idle", conn |-> 0, ok |-> FALSE]],
                  last_remove |-> NoRemove]
    /\ incoming = [pc |-> "none"]
    /\ query = [pc |-> "none"]
    /\ MoreIdle

SendRaceNext ==
    \/ \E i \in SendCallers : SendToGet(i)
    \/ \E i \in SendCallers : SendToCached(i)
    \/ \E i \in SendCallers : SendToRemove(i)
    \/ \E i \in SendCallers : SendToConnect(i)
    \/ \E i \in SendCallers : SendToInsert(i)
    \/ PeerDropsConnection

SendRaceSpec == SendRaceInit /\ [][SendRaceNext]_vars

\* C37: with concurrent send_to calls to one recipient, a remove takes out
\* of the cache only the connection on which the send of the removing call
\* failed: never a connection another call has cached since.
C37_OnlyFailedConnectionEvicted ==
    (comm.pc = "race" /\ comm.last_remove.some) =>
        comm.last_remove.removed \in {comm.last_remove.failed, 0}

(***************************************************************************)
(* QueryRaceSpec: two send_query calls with the same operation id on one   *)
(* Session, overlapping in time.  pending_queries maps the operation id to *)
(* one response channel; `query` holds whose channel that is (0 for none), *)
(* where each call is, its spawned insertion and removal tasks still to    *)
(* run, and what the last insertion and the last removal found in the map. *)
(***************************************************************************)
QueryCallers == {1, 2}

\* send_query up to the response loop: the insertion of the channel is
\* spawned, the message is sent to the elders and the send tasks are joined.
RaceSendQuery(i) ==
    /\ query.pc = "race"
    /\ query.calls[i].pc = "idle"
    /\ query' = [query EXCEPT !.calls[i].pc = "waiting",
                              !.calls[i].inserting = TRUE,
                              !.unanswered = @ + query.calls[i].elders_len]
    /\ UNCHANGED <<section_vars, dkg_vars, comm, incoming, more_vars>>

\* The task spawned by call i that inserts its sender under the operation
\* id, whatever the map holds for it.
RaceInsertPending(i) ==
    /\ query.pc = "race"
    /\ query.calls[i].inserting
    /\ query' = [query EXCEPT !.calls[i].inserting = FALSE,
                              !.pending = i,
                              !.last_insert = [by |-> i, found |-> query.pending]]
    /\ UNCHANGED <<section_vars, dkg_vars, comm, incoming, more_vars>>

\* An elder's answer arrives and goes to the channel the map holds for the
\* operation id: the call it belongs to takes it in a turn of its loop and,
\* when the loop breaks, spawns the removal of the entry if it has a
\* response, and returns.  An answer that finds no channel, or the channel
\* of a call that has returned, is dropped.
RaceElderResponds ==
    /\ query.pc = "race"
    /\ query.unanswered > 0
    /\ \E response \in ResponsesTo("GetRegister") :
          LET i == query.pending
          IN IF i # 0 /\ query.calls[i].pc = "waiting"
             THEN LET step == query_loop_step(query.calls[i], response)
                  IN query' = [query EXCEPT
                         !.unanswered = @ - 1,
                         !.calls[i].discarded_responses = step.discarded_responses,
                         !.calls[i].pc = IF step.break THEN "returned" ELSE "waiting",
                         !.calls[i].removing = step.break /\ step.response.some]
             ELSE query' = [query EXCEPT !.unanswered = @ - 1]
    /\ UNCHANGED <<section_vars, dkg_vars, comm, incoming, more_vars>>

\* The task spawned by call i that removes the entry of the operation id.
RaceRemovePending(i) ==
    /\ query.pc = "race"
    /\ query.calls[i].removing
    /\ query' = [query EXCEPT !.calls[i].removing = FALSE,
                              !.pending = 0,
                              !.last_remove = [by |-> i, found |-> query.pending]]
    /\ UNCHANGED <<section_vars, dkg_vars, comm, incoming, more_vars>>

\* Session::new: nothing is pending and no call has been made.
QueryRaceInit ==
    /\ section = NoSection
    /\ last = NoCall
    /\ candidates = NotCalled
    /\ sessions = {}
    /\ backlog = <<>>
    /\ commands = <<>>
    /\ dkg_last = NoDkgCall
    /\ comm = [pc |-> "none"]
    /\ incoming = [pc |-> "none"]
    /\ query = [pc |-> "race", pending |-> 0, unanswered |-> 0,
                calls |-> [i \in QueryCallers |->
                             [pc |-> "idle", inserting |-> FALSE,
                              removing |-> FALSE, kind |-> "GetRegister",
                              elders_len |-> NUM_OF_ELDERS_SUBSET_FOR_QUERIES,
                              discarded_responses |-> 0]],
                last_insert |-> [by |-> 0, found |-> 0],
                last_remove |-> [by |-> 0, found |-> 0]]
    /\ MoreIdle

QueryRaceNext ==
    \/ \E i \in QueryCallers : RaceSendQuery(i)
    \/ \E i \in QueryCallers : RaceInsertPending(i)
    \/ RaceElderResponds
    \/ \E i \in QueryCallers : RaceRemovePending(i)

QueryRaceSpec == QueryRaceInit /\ [][QueryRaceNext]_vars

\* C38: of two overlapping send_query calls with one operation id, each has
\* its own channel in pending_queries from the sending of its message until
\* it finishes; no insertion replaces the channel of the other call, and no
\* removal takes out the channel of the other call.
C38_EachQueryKeepsItsChannel ==
    query.pc = "race" =>
        /\ \A i \in QueryCallers :
              query.calls[i].pc = "waiting" => query.pending = i
        /\ query.last_insert.found \in {0, query.last_insert.by}
        /\ query.last_remove.found \in {0, query.last_remove.by}

(***************************************************************************)
(* The batches of make_contact_with_nodes.                                 *)
(***************************************************************************)
\* Every batch sent so far is a slice within the contact list.
BatchesWithinBounds ==
    \A i \in 1 .. Len(client.batches) :
        /\ client.batches[i].start >= 0
        /\ client.batches[i].size >= 0
        /\ client.batches[i].start + client.batches[i].size <= client.contacts

\* No batch sent so far is empty.
BatchesNonEmpty ==
    \A i \in 1 .. Len(client.batches) : client.batches[i].size >= 1

\* C39: whatever the length of the contact list, lengths below
\* NODES_TO_CONTACT_PER_STARTUP_BATCH included, and whatever the number of
\* rounds, make_contact_with_nodes takes no slice out of the range of the
\* list, and every batch it sends is a non-empty slice within the list.
C39_BatchesNonEmptyWithinBounds ==
    client.op = "make_contact_with_nodes" =>
        /\ client.pc # "panicked"
        /\ BatchesWithinBounds
        /\ BatchesNonEmpty

(***************************************************************************)
(* The signature of the current SAP.                                       *)
(***************************************************************************)
\* The key that signed the SAP is the public key of the SAP's own key set.
SignedWithOwnKey(section_auth) ==
    section_auth.sig.public_key = section_auth.value.public_key

\* C40: in every state of the Section, after Section::new and after every
\* update_elders or merge_chain that replaces the SAP, the current SAP
\* verifies against its own signature, and the key of that signature is the
\* public key of the SAP's own public key set.
C40_CurrentSapValidlySigned ==
    section.built =>
        /\ SelfVerify(section.section_auth)
        /\ SignedWithOwnKey(section.section_auth)

====
